---- MODULE Spec2Model ----
(***************************************************************************)
(* gardener-extension-shoot-traefik: the actuator (Reconcile, Delete,      *)
(* ForceDelete, Restore, Migrate) and the Traefik deployer (Deploy,        *)
(* Delete, generateResources) against a Kubernetes-style object store.     *)
(*                                                                         *)
(* An optional value (a Go pointer that may be nil) is a sequence of       *)
(* length 0 or 1.  An error is the chain of its %w-wrapped messages, the   *)
(* outermost first; nil is the empty chain.                                *)
(***************************************************************************)
EXTENDS Integers, Sequences, FiniteSets, TLC

\* ------------------------------------------------------------------ bounds

\* Invocations of the actuator per behaviour (started ones).
MaxCalls == 3

\* Largest replica count an override document carries.
MaxReplicas == 3

\* Entries of a Shoot's extensions list.
MaxExtensions == 2

\* ------------------------------------------------------- program constants

IngressProviderKubernetesIngress == "KubernetesIngress"

IngressProviderKubernetesIngressNGINX == "KubernetesIngressNGINX"

ShootPurposeEvaluation == "evaluation"

ErrShootPurposeNotEvaluation == "shoot purpose must be 'evaluation' for traefik extension"

\* Name of the Secret and of the ManagedResource (one fixed logical name).
ManagedResourceName == "ManagedResourceName"

\* Name under which the image vector holds the Traefik image.
ImageName == "traefik"

\* Namespace of the shoot-side objects of the bundle.
Namespace == "Namespace"

ServiceAccountName == "ServiceAccountName"

DeploymentName == "DeploymentName"

\* The zero value of Config in place of the defaults.
DefaultConfigZeroValue ==
    [ Image           |-> "",
      Replicas        |-> 0,
      IngressClass    |-> "",
      IngressProvider |-> "" ]

\* Config{Image, Replicas, IngressClass, IngressProvider} returned by DefaultConfig().
DefaultConfig ==
    [ Image           |-> "",
      Replicas        |-> 2,
      IngressClass    |-> "traefik",
      IngressProvider |-> IngressProviderKubernetesIngress ]

\* ---------------------------------------------------------------- inputs

Namespaces == {"shoot--a", "shoot--b"}

\* The values of TraefikConfigSpec's fields an override document may carry.
ImageValues == {"", "custom:v1"}

ReplicaValues == (-1) .. MaxReplicas

IngressClassValues == {"", "traefik", "nginx"}

IngressProviderValues ==
    {"", IngressProviderKubernetesIngress, IngressProviderKubernetesIngressNGINX, "Unrecognized"}

TraefikConfigSpecs ==
    [ Image           : ImageValues,
      Replicas        : ReplicaValues,
      IngressClass    : IngressClassValues,
      IngressProvider : IngressProviderValues ]

\* The raw provider config of an Extension: the fields its document carries, and
\* whether the strict decoder accepts the document.
RawConfigs == [ wellFormed : BOOLEAN, Spec : TraefikConfigSpecs ]

\* ex.Spec.ProviderConfig: nil or a raw document.
AllProviderConfigs == {<< >>} \cup { <<r>> : r \in RawConfigs }

\* The image vector handed to the actuator: with or without an entry for ImageName.
ImageVectors ==
    { {}, { [ Name |-> ImageName, Repository |-> "docker.io/library/traefik", Tag |-> "v3.6.7" ] } }

\* ------------------------------------------------------ configuration merge

\* runtime.DecodeInto(a.decoder, raw, &cfg): the error and what was decoded into cfg.
DecodeInto(raw) ==
    [ err |-> IF raw.wellFormed THEN << >> ELSE <<"decode error">>,
      cfg |-> [ Spec |-> raw.Spec ] ]

\* The four field-wise overrides of Reconcile's else-branch.
ApplyNonZeroReplicas(traefikConfig, cfg) ==
    [ Image           |-> IF cfg.Spec.Image # "" THEN cfg.Spec.Image ELSE traefikConfig.Image,
      Replicas        |-> IF cfg.Spec.Replicas # 0 THEN cfg.Spec.Replicas
                                                   ELSE traefikConfig.Replicas,
      IngressClass    |-> IF cfg.Spec.IngressClass # "" THEN cfg.Spec.IngressClass
                                                         ELSE traefikConfig.IngressClass,
      IngressProvider |-> IF cfg.Spec.IngressProvider # "" THEN cfg.Spec.IngressProvider
                                                            ELSE traefikConfig.IngressProvider ]

ApplyCustomConfiguration(traefikConfig, cfg) ==
    [ Image           |-> IF cfg.Spec.Image # "" THEN cfg.Spec.Image ELSE traefikConfig.Image,
      Replicas        |-> IF cfg.Spec.Replicas > 0 THEN cfg.Spec.Replicas
                                                   ELSE traefikConfig.Replicas,
      IngressClass    |-> IF cfg.Spec.IngressClass # "" THEN cfg.Spec.IngressClass
                                                         ELSE traefikConfig.IngressClass,
      IngressProvider |-> IF cfg.Spec.IngressProvider # "" THEN cfg.Spec.IngressProvider
                                                            ELSE traefikConfig.IngressProvider ]

\* Reconcile, "Parse the Traefik configuration from the extension spec": the
\* resolved config and whether the decoder was called.
ParseIgnoringDecodeError(providerConfig) ==
    IF providerConfig = << >>
    THEN [ traefikConfig |-> DefaultConfig, decoded |-> FALSE, decodeErr |-> << >> ]
    ELSE LET d == DecodeInto(providerConfig[1])
         IN  [ traefikConfig |-> ApplyCustomConfiguration(DefaultConfig, d.cfg),
               decoded       |-> TRUE,
               decodeErr     |-> d.err ]

ParseTraefikConfig(providerConfig) ==
    IF providerConfig = << >>
    THEN [ traefikConfig |-> DefaultConfig, decoded |-> FALSE, decodeErr |-> << >> ]
    ELSE LET d == DecodeInto(providerConfig[1])
         IN  [ traefikConfig |-> IF d.err # << >>
                                 THEN DefaultConfig
                                 ELSE ApplyCustomConfiguration(DefaultConfig, d.cfg),
               decoded       |-> TRUE,
               decodeErr     |-> d.err ]

\* ------------------------------------------------------ resource set builder

\* imageVector.FindImage(name) followed by img.String(): repository:tag, or an error.
FindImage(imageVector, name) ==
    LET found == { i \in imageVector : i.Name = name }
    IN  IF found = {}
        THEN [ err |-> <<"could not find image">>, image |-> "" ]
        ELSE LET i == CHOOSE i \in found : TRUE
             IN  [ err |-> << >>, image |-> i.Repository \o ":" \o i.Tag ]

GetListWatch == <<"get", "list", "watch">>

PolicyRule(apiGroups, resources, verbs) ==
    [ APIGroups |-> apiGroups, Resources |-> resources, Verbs |-> verbs ]

NamespacesRule == PolicyRule(<<"">>, <<"namespaces">>, GetListWatch)

BaseRules ==
    << PolicyRule(<<"">>, <<"services", "endpoints", "secrets", "nodes">>, GetListWatch),
       PolicyRule(<<"discovery.k8s.io">>, <<"endpointslices">>, GetListWatch),
       PolicyRule(<<"extensions", "networking.k8s.io">>, <<"ingresses", "ingressclasses">>,
                  GetListWatch),
       PolicyRule(<<"extensions", "networking.k8s.io">>, <<"ingresses/status">>, <<"update">>),
       PolicyRule(<<"traefik.io">>, <<"*">>, GetListWatch) >>

serviceAccount ==
    [ Kind |-> "ServiceAccount", Name |-> ServiceAccountName, Namespace |-> Namespace ]

\* A ClusterRole named after the config's ingress class.
clusterRoleNamedAfterClass(config) ==
    [ Kind  |-> "ClusterRole",
      Name  |-> "traefik-ingress-controller-" \o config.IngressClass,
      Rules |-> IF config.IngressProvider = IngressProviderKubernetesIngressNGINX
                THEN Append(BaseRules, NamespacesRule)
                ELSE BaseRules ]

\* A ClusterRole that grants the namespaces rule whatever the provider.
clusterRoleWithNamespaces(config) ==
    [ Kind  |-> "ClusterRole",
      Name  |-> "traefik-ingress-controller",
      Rules |-> Append(BaseRules, NamespacesRule) ]

clusterRole(config) ==
    [ Kind  |-> "ClusterRole",
      Name  |-> "traefik-ingress-controller",
      Rules |-> IF config.IngressProvider = IngressProviderKubernetesIngressNGINX
                THEN Append(BaseRules, NamespacesRule)
                ELSE BaseRules ]

clusterRoleBinding ==
    [ Kind     |-> "ClusterRoleBinding",
      Name     |-> "traefik-ingress-controller",
      RoleRef  |-> [ Kind |-> "ClusterRole", Name |-> "traefik-ingress-controller" ],
      Subjects |-> << [ Kind |-> "ServiceAccount", Name |-> ServiceAccountName,
                        Namespace |-> Namespace ] >> ]

BaselineArgs ==
    << "--api.insecure=false",
       "--api.dashboard=false",
       "--ping=true",
       "--ping.entrypoint=web",
       "--metrics.prometheus=true",
       "--metrics.prometheus.entrypoint=metrics",
       "--entrypoints.web.address=:8000",
       "--entrypoints.websecure.address=:8443",
       "--entrypoints.metrics.address=:9100",
       "--log.level=INFO" >>

\* A switch without its default case: no provider arguments for other values.
ProviderArgsNoDefault(config) ==
    IF config.IngressProvider = IngressProviderKubernetesIngressNGINX
    THEN << "--providers.kubernetesingressnginx=true",
            "--providers.kubernetesingressnginx.ingressclass=" \o config.IngressClass >>
    ELSE IF config.IngressProvider = IngressProviderKubernetesIngress
    THEN << "--providers.kubernetesingress=true",
            "--providers.kubernetesingress.ingressclass=" \o config.IngressClass >>
    ELSE << >>

\* The switch on d.config.IngressProvider: the two arguments appended to the baseline.
ProviderArgs(config) ==
    IF config.IngressProvider = IngressProviderKubernetesIngressNGINX
    THEN << "--providers.kubernetesingressnginx=true",
            "--providers.kubernetesingressnginx.ingressclass=" \o config.IngressClass >>
    ELSE << "--providers.kubernetesingress=true",
            "--providers.kubernetesingress.ingressclass=" \o config.IngressClass >>

\* A deployment() whose NGINX case starts from the provider arguments.
deploymentProviderArgsFirst(config, imageVector) ==
    LET consult == config.Image = ""
        img     == FindImage(imageVector, ImageName)
        image   == IF consult THEN img.image ELSE config.Image
    IN  IF consult /\ img.err # << >>
        THEN [ err     |-> <<"failed to find traefik image in image vector">> \o img.err,
               obj     |-> << >>,
               lookups |-> 1 ]
        ELSE [ err     |-> << >>,
               obj     |-> << [ Kind      |-> "Deployment",
                                Name      |-> DeploymentName,
                                Namespace |-> Namespace,
                                Replicas  |-> config.Replicas,
                                Image     |-> image,
                                Args      |-> IF config.IngressProvider
                                                   = IngressProviderKubernetesIngressNGINX
                                              THEN ProviderArgs(config) \o BaselineArgs
                                              ELSE BaselineArgs \o ProviderArgs(config) ] >>,
               lookups |-> IF consult THEN 1 ELSE 0 ]

\* A deployment() that looks the image up before it looks at the config.
deploymentLookupFirst(config, imageVector) ==
    LET img   == FindImage(imageVector, ImageName)
        image == IF config.Image = "" THEN img.image ELSE config.Image
    IN  IF img.err # << >>
        THEN [ err     |-> <<"failed to find traefik image in image vector">> \o img.err,
               obj     |-> << >>,
               lookups |-> 1 ]
        ELSE [ err     |-> << >>,
               obj     |-> << [ Kind      |-> "Deployment",
                                Name      |-> DeploymentName,
                                Namespace |-> Namespace,
                                Replicas  |-> config.Replicas,
                                Image     |-> image,
                                Args      |-> BaselineArgs \o ProviderArgs(config) ] >>,
               lookups |-> 1 ]

\* deployment(): the error, the Deployment, and the number of FindImage calls made.
deployment(config, imageVector) ==
    LET consult == config.Image = ""
        img     == FindImage(imageVector, ImageName)
        image   == IF consult THEN img.image ELSE config.Image
    IN  IF consult /\ img.err # << >>
        THEN [ err     |-> <<"failed to find traefik image in image vector">> \o img.err,
               obj     |-> << >>,
               lookups |-> 1 ]
        ELSE [ err     |-> << >>,
               obj     |-> << [ Kind      |-> "Deployment",
                                Name      |-> DeploymentName,
                                Namespace |-> Namespace,
                                Replicas  |-> config.Replicas,
                                Image     |-> image,
                                Args      |-> BaselineArgs \o ProviderArgs(config) ] >>,
               lookups |-> IF consult THEN 1 ELSE 0 ]

service ==
    [ Kind |-> "Service", Name |-> "traefik", Namespace |-> Namespace,
      Type |-> "LoadBalancer",
      Ports |-> << [ Name |-> "web", Port |-> 80, TargetPort |-> "web" ],
                   [ Name |-> "websecure", Port |-> 443, TargetPort |-> "websecure" ] >> ]

\* An IngressClass under one name whatever the config.
ingressClassNamedTraefik(config) ==
    [ Kind        |-> "IngressClass",
      Name        |-> "traefik",
      Annotations |-> [ isDefaultClass |-> "true" ],
      Controller  |-> "traefik.io/ingress-controller" ]

ingressClass(config) ==
    [ Kind        |-> "IngressClass",
      Name        |-> config.IngressClass,
      Annotations |-> [ isDefaultClass |-> "true" ],
      Controller  |-> "traefik.io/ingress-controller" ]

networkPolicy ==
    [ Kind |-> "NetworkPolicy", Name |-> "traefik-allow-ingress", Namespace |-> Namespace,
      PolicyTypes |-> <<"Ingress", "Egress">> ]

ResourceKeys ==
    { "serviceaccount.yaml", "clusterrole.yaml", "clusterrolebinding.yaml",
      "deployment.yaml", "service.yaml", "ingressclass.yaml", "networkpolicy.yaml" }

\* runtime.Encode(codec, obj): the serialized document, one per object.
Encode(obj) == <<"encoded", obj>>

\* A generateResources() that leaves a Deployment it could not create out of the
\* bundle and returns the other documents.
generateResourcesWithoutFailed(config, imageVector) ==
    LET deploy == deployment(config, imageVector)
        keys   == IF deploy.err # << >> THEN ResourceKeys \ {"deployment.yaml"}
                                        ELSE ResourceKeys
    IN  [ err       |-> << >>,
          resources |-> << [ k \in keys |->
                               CASE k = "serviceaccount.yaml"     -> Encode(serviceAccount)
                                 [] k = "clusterrole.yaml"        -> Encode(clusterRole(config))
                                 [] k = "clusterrolebinding.yaml" -> Encode(clusterRoleBinding)
                                 [] k = "deployment.yaml"         -> Encode(deploy.obj[1])
                                 [] k = "service.yaml"            -> Encode(service)
                                 [] k = "ingressclass.yaml"       -> Encode(ingressClass(config))
                                 [] k = "networkpolicy.yaml"      -> Encode(networkPolicy) ] >>,
          lookups   |-> deploy.lookups ]

\* generateResources(): the error, the bundle (nil on error), the FindImage calls.
generateResources(config, imageVector) ==
    LET deploy == deployment(config, imageVector)
    IN  IF deploy.err # << >>
        THEN [ err       |-> <<"failed to create deployment">> \o deploy.err,
               resources |-> << >>,
               lookups   |-> deploy.lookups ]
        ELSE [ err       |-> << >>,
               resources |-> << [ k \in ResourceKeys |->
                                    CASE k = "serviceaccount.yaml"     -> Encode(serviceAccount)
                                      [] k = "clusterrole.yaml"        -> Encode(clusterRole(config))
                                      [] k = "clusterrolebinding.yaml" -> Encode(clusterRoleBinding)
                                      [] k = "deployment.yaml"         -> Encode(deploy.obj[1])
                                      [] k = "service.yaml"            -> Encode(service)
                                      [] k = "ingressclass.yaml"       -> Encode(ingressClass(config))
                                      [] k = "networkpolicy.yaml"      -> Encode(networkPolicy) ] >>,
               lookups   |-> deploy.lookups ]

\* utils.ComputeSecretChecksum(data): a digest of the whole bundle.
ComputeSecretChecksum(data) == <<"sha256", data>>

\* ------------------------------------------------------------------ state

VARIABLES
    store,         \* the objects of the store the client talks to
    nextRV,        \* the resourceVersion the store gives to its next write
    imageVector,   \* the actuator's image vector
    opTotal,       \* metrics.ActuatorOperationTotal, by <<cluster, operation>>
    pc,            \* per worker: the store call its invocation issues next
    inv,           \* per worker: the locals of its invocation
    lastDeployed,  \* per namespace: the config of the last invocation that returned,
                   \* when that was a Deploy returning nil (history)
    override,      \* a provider config to resolve and build from
    resolved,      \* what resolving override gave
    built,         \* what generateResources gave for the resolved config
    host,          \* the host runtime's work item: the operation it keeps invoking
                   \* on the target while the last invocation returned an error
    object,        \* the object of an admission request
    verdict        \* what the shoot validator returned for it

vars == << store, nextRV, imageVector, opTotal, pc, inv, lastDeployed,
           override, resolved, built, host, object, verdict >>

Procs == {1, 2}

Operations == {"reconcile", "restore", "migrate", "delete", "force_delete"}

NoFault == ""

\* What a store call can fail with besides what the store's state implies.
StoreFaults == {NoFault, "Internal"}

\* ------------------------------------------------------------- the store

ChecksumAnnotation == "resources.gardener.cloud/data-checksum"

Find(objects, kind, namespace, name) ==
    { o \in objects : o.Kind = kind /\ o.Namespace = namespace /\ o.Name = name }

SameContent(a, b) == [a EXCEPT !.ResourceVersion = 0] = [b EXCEPT !.ResourceVersion = 0]

\* client.Create: AlreadyExists when the key is taken, else the object is stored
\* under a fresh resourceVersion.
ClientCreate(objects, rv, obj, fault) ==
    IF fault # NoFault
    THEN [ err |-> fault, objects |-> objects, rv |-> rv ]
    ELSE IF Find(objects, obj.Kind, obj.Namespace, obj.Name) # {}
    THEN [ err |-> "AlreadyExists", objects |-> objects, rv |-> rv ]
    ELSE [ err     |-> "",
           objects |-> objects \cup { [obj EXCEPT !.ResourceVersion = rv] },
           rv      |-> rv + 1 ]

\* client.Get: NotFound, or the stored object.
ClientGet(objects, kind, namespace, name, fault) ==
    LET found == Find(objects, kind, namespace, name)
    IN  IF fault # NoFault
        THEN [ err |-> fault, obj |-> << >> ]
        ELSE IF found = {}
        THEN [ err |-> "NotFound", obj |-> << >> ]
        ELSE [ err |-> "", obj |-> << CHOOSE o \in found : TRUE >> ]

\* client.Update: NotFound, Conflict when the carried resourceVersion is not the
\* stored one, else the stored object is replaced as a whole (a fresh
\* resourceVersion unless nothing changed).
ClientUpdate(objects, rv, obj, fault) ==
    LET found == Find(objects, obj.Kind, obj.Namespace, obj.Name)
        cur   == CHOOSE o \in found : TRUE
    IN  IF fault # NoFault
        THEN [ err |-> fault, objects |-> objects, rv |-> rv ]
        ELSE IF found = {}
        THEN [ err |-> "NotFound", objects |-> objects, rv |-> rv ]
        ELSE IF cur.ResourceVersion # obj.ResourceVersion
        THEN [ err |-> "Conflict", objects |-> objects, rv |-> rv ]
        ELSE IF SameContent(cur, obj)
        THEN [ err |-> "", objects |-> objects, rv |-> rv ]
        ELSE [ err     |-> "",
               objects |-> (objects \ found) \cup { [obj EXCEPT !.ResourceVersion = rv] },
               rv      |-> rv + 1 ]

\* client.Delete: NotFound, or the object is removed.
ClientDelete(objects, kind, namespace, name, fault) ==
    LET found == Find(objects, kind, namespace, name)
    IN  IF fault # NoFault
        THEN [ err |-> fault, objects |-> objects ]
        ELSE IF found = {}
        THEN [ err |-> "NotFound", objects |-> objects ]
        ELSE [ err |-> "", objects |-> objects \ found ]

\* client.IgnoreAlreadyExists(err) != nil
IsOtherThanAlreadyExists(err) == err # "" /\ err # "AlreadyExists"

\* client.IgnoreNotFound(err) != nil
IsOtherThanNotFound(err) == err # "" /\ err # "NotFound"

\* --------------------------------------------------- the deployer's objects

\* A Secret whose data carries the namespace it is written to.
DesiredSecretPerNamespace(namespace, resources) ==
    LET data == [ k \in DOMAIN resources |-> << resources[k], namespace >> ]
    IN  [ Kind            |-> "Secret",
          Name            |-> ManagedResourceName,
          Namespace       |-> namespace,
          ResourceVersion |-> 0,
          Annotations     |-> (ChecksumAnnotation :> ComputeSecretChecksum(data)),
          Type            |-> "Opaque",
          Data            |-> data ]

\* The Secret Deploy builds: data and checksum annotation together.
DesiredSecret(namespace, resources) ==
    [ Kind            |-> "Secret",
      Name            |-> ManagedResourceName,
      Namespace       |-> namespace,
      ResourceVersion |-> 0,
      Annotations     |-> (ChecksumAnnotation :> ComputeSecretChecksum(resources)),
      Type            |-> "Opaque",
      Data            |-> resources ]

\* The ManagedResource Deploy builds.
DesiredManagedResource(namespace) ==
    [ Kind            |-> "ManagedResource",
      Name            |-> ManagedResourceName,
      Namespace       |-> namespace,
      ResourceVersion |-> 0,
      Spec            |-> [ SecretRefs   |-> << [ Name |-> ManagedResourceName ] >>,
                            InjectLabels |-> ("shoot.gardener.cloud/no-cleanup" :> "true"),
                            KeepObjects  |-> << FALSE >> ] ]

\* ------------------------------------------------------------ the actuator

\* The type of the Extension resources, in the actuator and in the validator.
ExtensionType == "traefik"

Purposes == { << >>, << ShootPurposeEvaluation >>, << "production" >> }

\* What extensionscontroller.GetCluster returns: an error, or the cluster with its shoot.
Clusters ==
    { [ err |-> "NotFound", Shoot |-> << >> ] } \cup
    { [ err |-> "", Shoot |-> << [ Hibernated |-> h, Purpose |-> pu ] >> ] :
          h \in BOOLEAN, pu \in Purposes }

\* v1beta1helper.HibernationIsEnabled(cluster.Shoot)
HibernationIsEnabled(shoot) == shoot.Hibernated

\* The purpose check without its nil case.
PurposeSetAndNotEvaluation(shoot) ==
    shoot.Purpose # << >> /\ shoot.Purpose[1] # ShootPurposeEvaluation

\* The purpose check of Reconcile: the purpose is nil or not "evaluation".

PurposeNotEvaluation(shoot) ==
    shoot.Purpose = << >> \/ shoot.Purpose[1] # ShootPurposeEvaluation

NoInvocation ==
    [ op             |-> "",
      ns             |-> "",
      providerConfig |-> << >>,
      cluster        |-> << >>,
      decoded        |-> FALSE,
      lookups        |-> 0,
      config         |-> << >>,
      deployer       |-> "",
      resources      |-> << >>,
      existing       |-> << >>,
      log            |-> << >>,
      result         |-> << >>,
      before         |-> {},
      prev           |-> << >>,
      overlapped     |-> FALSE ]

\* The objects of one namespace, resourceVersions left out.
View(objects, namespace) ==
    { [o EXCEPT !.ResourceVersion = 0] : o \in { x \in objects : x.Namespace = namespace } }

\* A prelude that checks the purpose before the hibernation.
ReconcilePreludePurposeFirst(providerConfig, cl, iv) ==
    LET skip(result) ==
            [ result |-> << result >>, decoded |-> FALSE, lookups |-> 0,
              config |-> << >>, deployer |-> "", resources |-> << >> ]
    IN  IF cl.err # ""
        THEN skip(<< "failed to get cluster", cl.err >>)
        ELSE IF PurposeNotEvaluation(cl.Shoot[1])
        THEN skip(<< ErrShootPurposeNotEvaluation >>)
        ELSE IF HibernationIsEnabled(cl.Shoot[1])
        THEN skip(<< >>)
        ELSE LET parsed == ParseTraefikConfig(providerConfig)
                 gen    == generateResources(parsed.traefikConfig, iv)
             IN  [ result    |-> IF gen.err # << >>
                                 THEN << << "failed to deploy traefik",
                                            "failed to generate traefik resources" >>
                                         \o gen.err >>
                                 ELSE << >>,
                   decoded   |-> parsed.decoded,
                   lookups   |-> gen.lookups,
                   config    |-> << parsed.traefikConfig >>,
                   deployer  |-> "Deploy",
                   resources |-> gen.resources ]

\* Reconcile up to and including Deploy's generateResources: everything before the
\* first store write.  result is << >> when Deploy goes on to the store.
ReconcilePrelude(providerConfig, cl, iv) ==
    LET skip(result) ==
            [ result |-> << result >>, decoded |-> FALSE, lookups |-> 0,
              config |-> << >>, deployer |-> "", resources |-> << >> ]
    IN  IF cl.err # ""
        THEN skip(<< "failed to get cluster", cl.err >>)
        ELSE IF HibernationIsEnabled(cl.Shoot[1])
        THEN skip(<< >>)
        ELSE IF PurposeNotEvaluation(cl.Shoot[1])
        THEN skip(<< ErrShootPurposeNotEvaluation >>)
        ELSE LET parsed == ParseTraefikConfig(providerConfig)
                 gen    == generateResources(parsed.traefikConfig, iv)
             IN  [ result    |-> IF gen.err # << >>
                                 THEN << << "failed to deploy traefik",
                                            "failed to generate traefik resources" >>
                                         \o gen.err >>
                                 ELSE << >>,
                   decoded   |-> parsed.decoded,
                   lookups   |-> gen.lookups,
                   config    |-> << parsed.traefikConfig >>,
                   deployer  |-> "Deploy",
                   resources |-> gen.resources ]

RECURSIVE SumOver(_, _)
SumOver(f, keys) ==
    IF keys = {} THEN 0
    ELSE LET k == CHOOSE k \in keys : TRUE IN f[k] + SumOver(f, keys \ {k})

\* Invocations started so far: those that returned (each counted once under
\* reconcile, delete or force_delete) and those under way.
Started ==
    SumOver(opTotal, Namespaces \X {"reconcile", "delete", "force_delete"})
    + Cardinality({ p \in Procs : pc[p] # "idle" })

\* The host runtime hands a namespace to one worker at a time.
Serialized(p, ns) == \A q \in Procs : pc[q] = "idle" \/ inv[q].ns # ns

\* The invocations that have store calls ahead on a namespace.
AtWork(ns) == { q \in Procs : pc[q] \notin {"idle", "done"} /\ inv[q].ns = ns }

\* Worker p starts an invocation on ns: it and the invocations at work on ns are
\* from now on known to have overlapped.
Enter(p, ns, invocation) ==
    [ q \in Procs |->
        IF q = p THEN [ invocation EXCEPT !.overlapped = AtWork(ns) # {} ]
        ELSE IF q \in AtWork(ns) THEN [ inv[q] EXCEPT !.overlapped = TRUE ]
        ELSE inv[q] ]

EnterReconcile(p, ns, op, providerConfig, cl) ==
    LET pre == ReconcilePrelude(providerConfig, cl, imageVector)
    IN  /\ pc[p] = "idle"
        /\ Started < MaxCalls
        /\ inv' = LET invocation ==
                         [ NoInvocation EXCEPT
                             !.op = op, !.ns = ns,
                             !.providerConfig = providerConfig, !.cluster = << cl >>,
                             !.decoded = pre.decoded, !.lookups = pre.lookups,
                             !.config = pre.config, !.deployer = pre.deployer,
                             !.resources = pre.resources, !.result = pre.result,
                             !.before = View(store, ns), !.prev = lastDeployed[ns] ]
                   IN  IF pre.result = << >> THEN Enter(p, ns, invocation)
                       ELSE [inv EXCEPT ![p] = invocation]
        /\ pc' = [pc EXCEPT ![p] = IF pre.result = << >> THEN "createSecret" ELSE "done"]
        /\ UNCHANGED << store, nextRV, imageVector, opTotal, lastDeployed,
                        override, resolved, built, host, object, verdict >>

\* Actuator.Reconcile
Reconcile(p, ns, providerConfig, cl) == EnterReconcile(p, ns, "reconcile", providerConfig, cl)

\* A Restore that does not look at the shoot's hibernation.
RestoreHibernated(p, ns, providerConfig, cl) ==
    EnterReconcile(p, ns, "restore", providerConfig,
                   IF cl.err = "" THEN [cl EXCEPT !.Shoot[1].Hibernated = FALSE] ELSE cl)

\* Actuator.Restore: Reconcile under another metrics label.
Restore(p, ns, providerConfig, cl) == EnterReconcile(p, ns, "restore", providerConfig, cl)

\* Actuator.Migrate: Reconcile under another metrics label.
Migrate(p, ns, providerConfig, cl) == EnterReconcile(p, ns, "migrate", providerConfig, cl)

EnterDelete(p, ns, op, providerConfig) ==
    /\ pc[p] = "idle"
    /\ Started < MaxCalls
    /\ inv' = Enter(p, ns,
                     [ NoInvocation EXCEPT
                         !.op = op, !.ns = ns, !.providerConfig = providerConfig,
                         !.config = << DefaultConfig >>, !.deployer = "Delete",
                         !.before = View(store, ns), !.prev = lastDeployed[ns] ])
    /\ pc' = [pc EXCEPT ![p] = "deleteMR"]
    /\ UNCHANGED << store, nextRV, imageVector, opTotal, lastDeployed,
                    override, resolved, built, host, object, verdict >>

\* A Delete that builds the resources of its deployer before it deletes.
DeleteAfterGenerate(p, ns, providerConfig) ==
    LET gen == generateResources(DefaultConfig, imageVector)
    IN  /\ pc[p] = "idle"
        /\ Started < MaxCalls
        /\ inv' = Enter(p, ns,
                         [ NoInvocation EXCEPT
                             !.op = "delete", !.ns = ns, !.providerConfig = providerConfig,
                             !.config = << DefaultConfig >>, !.deployer = "Delete",
                             !.lookups = gen.lookups,
                             !.result = IF gen.err # << >>
                                        THEN << << "failed to delete traefik" >> \o gen.err >>
                                        ELSE << >>,
                             !.before = View(store, ns), !.prev = lastDeployed[ns] ])
        /\ pc' = [pc EXCEPT ![p] = IF gen.err # << >> THEN "done" ELSE "deleteMR"]
        /\ UNCHANGED << store, nextRV, imageVector, opTotal, lastDeployed,
                        override, resolved, built, host, object, verdict >>

\* Actuator.Delete
Delete(p, ns, providerConfig) == EnterDelete(p, ns, "delete", providerConfig)

\* Actuator.ForceDelete
ForceDelete(p, ns, providerConfig) == EnterDelete(p, ns, "force_delete", providerConfig)

\* ------------------------------------------------------------ the deployer

Call(verb, kind, rv, err) == [ verb |-> verb, kind |-> kind, rv |-> rv, err |-> err ]

\* The message the actuator wraps a deployer error in.
ActuatorWrap(op) ==
    CASE op \in {"reconcile", "restore", "migrate"} -> "failed to deploy traefik"
      [] op = "delete"                              -> "failed to delete traefik"
      [] op = "force_delete"                        -> "failed to force-delete traefik"

\* The invocation of p returns the deployer's error msg: err after its store call c.
Fails(p, c, msg) ==
    /\ inv' = [inv EXCEPT ![p].log = Append(@, c),
                          ![p].result = << << ActuatorWrap(inv[p].op), msg, c.err >> >>]
    /\ pc' = [pc EXCEPT ![p] = "done"]

\* The invocation of p goes on to the store call at next after its store call c.
GoesOn(p, c, next) ==
    /\ inv' = [inv EXCEPT ![p].log = Append(@, c)]
    /\ pc' = [pc EXCEPT ![p] = next]

\* The invocation of p returns nil after its store call c.
Succeeds(p, c) ==
    /\ inv' = [inv EXCEPT ![p].log = Append(@, c), ![p].result = << << >> >>]
    /\ pc' = [pc EXCEPT ![p] = "done"]

Untouched ==
    UNCHANGED << imageVector, opTotal, lastDeployed, override, resolved, built, host, object, verdict >>

\* Create of the Secret with every error fatal, AlreadyExists too.
CreateSecretOnly(p, fault) ==
    LET r == ClientCreate(store, nextRV, DesiredSecret(inv[p].ns, inv[p].resources[1]), fault)
        c == Call("Create", "Secret", << >>, r.err)
    IN  /\ pc[p] = "createSecret"
        /\ store' = r.objects
        /\ nextRV' = r.rv
        /\ IF r.err # "" THEN Fails(p, c, "failed to create secret")
           ELSE GoesOn(p, c, "createMR")
        /\ Untouched

\* Create of the Secret with every error dropped.
CreateSecretBestEffort(p, fault) ==
    LET r == ClientCreate(store, nextRV, DesiredSecret(inv[p].ns, inv[p].resources[1]), fault)
        c == Call("Create", "Secret", << >>, r.err)
    IN  /\ pc[p] = "createSecret"
        /\ store' = r.objects
        /\ nextRV' = r.rv
        /\ IF r.err = "AlreadyExists" THEN GoesOn(p, c, "getSecret")
           ELSE GoesOn(p, c, "createMR")
        /\ Untouched

\* Deploy: d.client.Create(ctx, secret)
CreateSecret(p, fault) ==
    LET r == ClientCreate(store, nextRV, DesiredSecret(inv[p].ns, inv[p].resources[1]), fault)
        c == Call("Create", "Secret", << >>, r.err)
    IN  /\ pc[p] = "createSecret"
        /\ store' = r.objects
        /\ nextRV' = r.rv
        /\ IF IsOtherThanAlreadyExists(r.err) THEN Fails(p, c, "failed to create secret")
           ELSE IF r.err # "" THEN GoesOn(p, c, "getSecret")
           ELSE GoesOn(p, c, "createMR")
        /\ Untouched

\* Get of the Secret with its error dropped.
GetSecretUnchecked(p, fault) ==
    LET r == ClientGet(store, "Secret", inv[p].ns, ManagedResourceName, fault)
        rv == IF r.err = "" THEN << r.obj[1].ResourceVersion >> ELSE << 0 >>
    IN  /\ pc[p] = "getSecret"
        /\ inv' = [inv EXCEPT ![p].log = Append(@, Call("Get", "Secret", rv, r.err)),
                              ![p].existing = rv]
        /\ pc' = [pc EXCEPT ![p] = "updateSecret"]
        /\ UNCHANGED << store, nextRV >>
        /\ Untouched

\* Deploy: d.client.Get(ctx, client.ObjectKeyFromObject(secret), existing)
GetSecret(p, fault) ==
    LET r == ClientGet(store, "Secret", inv[p].ns, ManagedResourceName, fault)
    IN  /\ pc[p] = "getSecret"
        /\ IF r.err # ""
           THEN Fails(p, Call("Get", "Secret", << >>, r.err), "failed to get existing secret")
           ELSE /\ inv' = [inv EXCEPT
                             ![p].log = Append(@, Call("Get", "Secret",
                                                       << r.obj[1].ResourceVersion >>, "")),
                             ![p].existing = << r.obj[1].ResourceVersion >>]
                /\ pc' = [pc EXCEPT ![p] = "updateSecret"]
        /\ UNCHANGED << store, nextRV >>
        /\ Untouched

\* Update of the Secret without the fetched resourceVersion.
UpdateSecretUnversioned(p, fault) ==
    LET secret == DesiredSecret(inv[p].ns, inv[p].resources[1])
        r == ClientUpdate(store, nextRV, secret, fault)
        c == Call("Update", "Secret", << secret.ResourceVersion >>, r.err)
    IN  /\ pc[p] = "updateSecret"
        /\ store' = r.objects
        /\ nextRV' = r.rv
        /\ IF r.err # "" THEN Fails(p, c, "failed to update secret")
           ELSE GoesOn(p, c, "createMR")
        /\ Untouched

\* Update of the Secret's data alone, the stored annotations kept.
UpdateSecretDataOnly(p, fault) ==
    LET desired == DesiredSecret(inv[p].ns, inv[p].resources[1])
        found   == Find(store, "Secret", inv[p].ns, ManagedResourceName)
        secret  == [ desired EXCEPT
                       !.ResourceVersion = inv[p].existing[1],
                       !.Annotations = IF found = {} THEN @
                                       ELSE (CHOOSE o \in found : TRUE).Annotations ]
        r == ClientUpdate(store, nextRV, secret, fault)
        c == Call("Update", "Secret", << secret.ResourceVersion >>, r.err)
    IN  /\ pc[p] = "updateSecret"
        /\ store' = r.objects
        /\ nextRV' = r.rv
        /\ IF r.err # "" THEN Fails(p, c, "failed to update secret")
           ELSE GoesOn(p, c, "createMR")
        /\ Untouched

\* An Update of the Secret that reads the Secret again when the store reports a
\* conflict.
UpdateSecretRetryOnConflict(p, fault) ==
    LET secret == [ DesiredSecret(inv[p].ns, inv[p].resources[1])
                      EXCEPT !.ResourceVersion = inv[p].existing[1] ]
        r == ClientUpdate(store, nextRV, secret, fault)
        c == Call("Update", "Secret", << secret.ResourceVersion >>, r.err)
    IN  /\ pc[p] = "updateSecret"
        /\ store' = r.objects
        /\ nextRV' = r.rv
        /\ IF r.err = "Conflict" THEN GoesOn(p, c, "getSecret")
           ELSE IF r.err # "" THEN Fails(p, c, "failed to update secret")
           ELSE GoesOn(p, c, "createMR")
        /\ Untouched

\* Deploy: secret.ResourceVersion = existing.ResourceVersion; d.client.Update(ctx, secret)
UpdateSecret(p, fault) ==
    LET secret == [ DesiredSecret(inv[p].ns, inv[p].resources[1])
                      EXCEPT !.ResourceVersion = inv[p].existing[1] ]
        r == ClientUpdate(store, nextRV, secret, fault)
        c == Call("Update", "Secret", << secret.ResourceVersion >>, r.err)
    IN  /\ pc[p] = "updateSecret"
        /\ store' = r.objects
        /\ nextRV' = r.rv
        /\ IF r.err # "" THEN Fails(p, c, "failed to update secret")
           ELSE GoesOn(p, c, "createMR")
        /\ Untouched

\* Create of the ManagedResource with AlreadyExists taken for success.
CreateManagedResourceIfAbsent(p, fault) ==
    LET r == ClientCreate(store, nextRV, DesiredManagedResource(inv[p].ns), fault)
        c == Call("Create", "ManagedResource", << >>, r.err)
    IN  /\ pc[p] = "createMR"
        /\ store' = r.objects
        /\ nextRV' = r.rv
        /\ IF IsOtherThanAlreadyExists(r.err)
           THEN Fails(p, c, "failed to create managed resource")
           ELSE Succeeds(p, c)
        /\ Untouched

\* A Create of the ManagedResource that removes the Secret again when it fails.
CreateManagedResourceOrCleanUp(p, fault) ==
    LET r == ClientCreate(store, nextRV, DesiredManagedResource(inv[p].ns), fault)
        c == Call("Create", "ManagedResource", << >>, r.err)
    IN  /\ pc[p] = "createMR"
        /\ store' = IF IsOtherThanAlreadyExists(r.err)
                    THEN r.objects \ Find(r.objects, "Secret", inv[p].ns, ManagedResourceName)
                    ELSE r.objects
        /\ nextRV' = r.rv
        /\ IF IsOtherThanAlreadyExists(r.err)
           THEN Fails(p, c, "failed to create managed resource")
           ELSE IF r.err # "" THEN GoesOn(p, c, "getMR")
           ELSE Succeeds(p, c)
        /\ Untouched

\* Deploy: d.client.Create(ctx, managedResource)
CreateManagedResource(p, fault) ==
    LET r == ClientCreate(store, nextRV, DesiredManagedResource(inv[p].ns), fault)
        c == Call("Create", "ManagedResource", << >>, r.err)
    IN  /\ pc[p] = "createMR"
        /\ store' = r.objects
        /\ nextRV' = r.rv
        /\ IF IsOtherThanAlreadyExists(r.err)
           THEN Fails(p, c, "failed to create managed resource")
           ELSE IF r.err # "" THEN GoesOn(p, c, "getMR")
           ELSE Succeeds(p, c)
        /\ Untouched

\* Deploy: d.client.Get(ctx, client.ObjectKeyFromObject(managedResource), existing)
GetManagedResource(p, fault) ==
    LET r == ClientGet(store, "ManagedResource", inv[p].ns, ManagedResourceName, fault)
    IN  /\ pc[p] = "getMR"
        /\ IF r.err # ""
           THEN Fails(p, Call("Get", "ManagedResource", << >>, r.err),
                      "failed to get existing managed resource")
           ELSE /\ inv' = [inv EXCEPT
                             ![p].log = Append(@, Call("Get", "ManagedResource",
                                                       << r.obj[1].ResourceVersion >>, "")),
                             ![p].existing = << r.obj[1].ResourceVersion >>]
                /\ pc' = [pc EXCEPT ![p] = "updateMR"]
        /\ UNCHANGED << store, nextRV >>
        /\ Untouched

\* Update of the ManagedResource without the resourceVersion that Get returned.
UpdateManagedResourceUnversioned(p, fault) ==
    LET mr == DesiredManagedResource(inv[p].ns)
        r == ClientUpdate(store, nextRV, mr, fault)
        c == Call("Update", "ManagedResource", << mr.ResourceVersion >>, r.err)
    IN  /\ pc[p] = "updateMR"
        /\ store' = r.objects
        /\ nextRV' = r.rv
        /\ IF r.err # "" THEN Fails(p, c, "failed to update managed resource")
           ELSE Succeeds(p, c)
        /\ Untouched

\* Deploy: managedResource.ResourceVersion = existing.ResourceVersion;
\* d.client.Update(ctx, managedResource)
UpdateManagedResource(p, fault) ==
    LET mr == [ DesiredManagedResource(inv[p].ns)
                  EXCEPT !.ResourceVersion = inv[p].existing[1] ]
        r == ClientUpdate(store, nextRV, mr, fault)
        c == Call("Update", "ManagedResource", << mr.ResourceVersion >>, r.err)
    IN  /\ pc[p] = "updateMR"
        /\ store' = r.objects
        /\ nextRV' = r.rv
        /\ IF r.err # "" THEN Fails(p, c, "failed to update managed resource")
           ELSE Succeeds(p, c)
        /\ Untouched

\* Delete of the ManagedResource with its error dropped.
DeleteManagedResourceBestEffort(p, fault) ==
    LET r == ClientDelete(store, "ManagedResource", inv[p].ns, ManagedResourceName, fault)
        c == Call("Delete", "ManagedResource", << >>, r.err)
    IN  /\ pc[p] = "deleteMR"
        /\ store' = r.objects
        /\ GoesOn(p, c, "deleteSecret")
        /\ UNCHANGED nextRV
        /\ Untouched

\* Delete of the ManagedResource with every error fatal, NotFound too.
DeleteManagedResourceStrict(p, fault) ==
    LET r == ClientDelete(store, "ManagedResource", inv[p].ns, ManagedResourceName, fault)
        c == Call("Delete", "ManagedResource", << >>, r.err)
    IN  /\ pc[p] = "deleteMR"
        /\ store' = r.objects
        /\ IF r.err # "" THEN Fails(p, c, "failed to delete managed resource")
           ELSE GoesOn(p, c, "deleteSecret")
        /\ UNCHANGED nextRV
        /\ Untouched

\* Deployer.Delete: d.client.Delete(ctx, managedResource)
DeleteManagedResource(p, fault) ==
    LET r == ClientDelete(store, "ManagedResource", inv[p].ns, ManagedResourceName, fault)
        c == Call("Delete", "ManagedResource", << >>, r.err)
    IN  /\ pc[p] = "deleteMR"
        /\ store' = r.objects
        /\ IF IsOtherThanNotFound(r.err) THEN Fails(p, c, "failed to delete managed resource")
           ELSE GoesOn(p, c, "deleteSecret")
        /\ UNCHANGED nextRV
        /\ Untouched

\* A Delete of the Secret by name alone, in whatever namespace it is.
DeleteSecretOfAnyNamespace(p, fault) ==
    LET r == ClientDelete(store, "Secret", inv[p].ns, ManagedResourceName, fault)
        c == Call("Delete", "Secret", << >>, r.err)
    IN  /\ pc[p] = "deleteSecret"
        /\ store' = IF fault # NoFault THEN store
                    ELSE { o \in store : ~(o.Kind = "Secret" /\ o.Name = ManagedResourceName) }
        /\ IF IsOtherThanNotFound(r.err) THEN Fails(p, c, "failed to delete secret")
           ELSE Succeeds(p, c)
        /\ UNCHANGED nextRV
        /\ Untouched

\* Delete of the Secret with every error fatal, NotFound too.
DeleteSecretStrict(p, fault) ==
    LET r == ClientDelete(store, "Secret", inv[p].ns, ManagedResourceName, fault)
        c == Call("Delete", "Secret", << >>, r.err)
    IN  /\ pc[p] = "deleteSecret"
        /\ store' = r.objects
        /\ IF r.err # "" THEN Fails(p, c, "failed to delete secret")
           ELSE Succeeds(p, c)
        /\ UNCHANGED nextRV
        /\ Untouched

\* Deployer.Delete: d.client.Delete(ctx, secret)
DeleteSecret(p, fault) ==
    LET r == ClientDelete(store, "Secret", inv[p].ns, ManagedResourceName, fault)
        c == Call("Delete", "Secret", << >>, r.err)
    IN  /\ pc[p] = "deleteSecret"
        /\ store' = r.objects
        /\ IF IsOtherThanNotFound(r.err) THEN Fails(p, c, "failed to delete secret")
           ELSE Succeeds(p, c)
        /\ UNCHANGED nextRV
        /\ Untouched

\* The labels an operation's deferred metrics increments count under.
Labels(op) == IF op \in {"restore", "migrate"} THEN {op, "reconcile"} ELSE {op}

\* The invocation returns to the host runtime: the deferred increments run.
Return(p) ==
    LET i == inv[p]
    IN  /\ pc[p] = "done"
        /\ opTotal' = [ k \in DOMAIN opTotal |->
                          IF k[1] = i.ns /\ k[2] \in Labels(i.op)
                          THEN opTotal[k] + 1 ELSE opTotal[k] ]
        /\ lastDeployed' =
             [lastDeployed EXCEPT ![i.ns] =
                IF i.log = << >> THEN @
                ELSE IF i.deployer = "Deploy" /\ i.result = << << >> >> THEN i.config
                ELSE << >>]
        /\ pc' = [pc EXCEPT ![p] = "idle"]
        /\ inv' = [inv EXCEPT ![p] = NoInvocation]
        /\ UNCHANGED << store, nextRV, imageVector, override, resolved, built,
                        object, verdict >>

\* ----------------------------------------------------- resolving and building

\* The parse block of Reconcile applied to override.
Resolve ==
    /\ resolved = << >>
    /\ resolved' = << ParseTraefikConfig(override) >>
    /\ UNCHANGED << store, nextRV, imageVector, opTotal, pc, inv, lastDeployed,
                    override, built, host, object, verdict >>

\* The Deployer's Config type: any value of its four fields.
Configs ==
    [ Image           : ImageValues,
      Replicas        : ReplicaValues,
      IngressClass    : IngressClassValues,
      IngressProvider : IngressProviderValues ]

\* NewDeployer(c, logger, config, imageVector) and its generateResources(): the
\* deployer's config and image vector with what the build returned.
NewDeployer(config, iv) ==
    LET r == generateResources(config, iv)
    IN  [ config      |-> config,
          imageVector |-> iv,
          err         |-> r.err,
          resources   |-> r.resources,
          lookups     |-> r.lookups ]

\* generateResources applied to the resolved config.
Generate ==
    /\ resolved # << >>
    /\ built = << >>
    /\ built' = << NewDeployer(resolved[1].traefikConfig, imageVector) >>
    /\ UNCHANGED << store, nextRV, imageVector, opTotal, pc, inv, lastDeployed,
                    override, resolved, host, object, verdict >>

\* generateResources of a deployer constructed with a config given directly.
GenerateFor(config) ==
    /\ override = << >>
    /\ resolved = << >>
    /\ built = << >>
    /\ built' = << NewDeployer(config, imageVector) >>
    /\ UNCHANGED << store, nextRV, imageVector, opTotal, pc, inv, lastDeployed,
                    override, resolved, host, object, verdict >>

\* ------------------------------------------------------------ specifications

\* The provider configs the invocations are run with.
ProviderConfigs ==
    { << >>,
      << [ wellFormed |-> FALSE,
           Spec |-> [ Image |-> "custom:v1", Replicas |-> 3, IngressClass |-> "nginx",
                      IngressProvider |-> IngressProviderKubernetesIngressNGINX ] ] >>,
      << [ wellFormed |-> TRUE,
           Spec |-> [ Image |-> "", Replicas |-> 0, IngressClass |-> "nginx",
                      IngressProvider |-> IngressProviderKubernetesIngressNGINX ] ] >>,
      << [ wellFormed |-> TRUE,
           Spec |-> [ Image |-> "custom:v1", Replicas |-> 3, IngressClass |-> "",
                      IngressProvider |-> "" ] ] >> }

Targets == {"shoot--a"}

\* The worker of the specifications that run one invocation at a time.
Workers == {1}

NoOverride == << >>

\* No admission request.
NoObject == [ Kind |-> "", Extensions |-> << >>, Purpose |-> << >>, Hibernated |-> FALSE ]

\* No work item: the invocations come as they come.
NoHost == [ op |-> "", providerConfig |-> << >>, pending |-> FALSE ]

InitCommon ==
    /\ imageVector \in ImageVectors
    /\ opTotal = [ k \in Namespaces \X Operations |-> 0 ]
    /\ pc = [ p \in Procs |-> "idle" ]
    /\ inv = [ p \in Procs |-> NoInvocation ]
    /\ lastDeployed = [ ns \in Namespaces |-> << >> ]
    /\ resolved = << >>
    /\ built = << >>
    /\ verdict = << >>

\* An empty store.
Init ==
    /\ store = {}
    /\ nextRV = 1
    /\ override = NoOverride
    /\ host = NoHost
    /\ object = NoObject
    /\ InitCommon

\* One namespace at a time per worker, a store whose calls may fail.
Next ==
    \E p \in Workers :
        \/ \E ns \in Targets, pcfg \in ProviderConfigs, cl \in Clusters :
              Serialized(p, ns) /\ Reconcile(p, ns, pcfg, cl)
        \/ \E ns \in Targets, pcfg \in ProviderConfigs, cl \in Clusters :
              Serialized(p, ns) /\ Restore(p, ns, pcfg, cl)
        \/ \E ns \in Targets, pcfg \in ProviderConfigs, cl \in Clusters :
              Serialized(p, ns) /\ Migrate(p, ns, pcfg, cl)
        \/ \E ns \in Targets, pcfg \in ProviderConfigs :
              Serialized(p, ns) /\ Delete(p, ns, pcfg)
        \/ \E ns \in Targets, pcfg \in ProviderConfigs :
              Serialized(p, ns) /\ ForceDelete(p, ns, pcfg)
        \/ \E fault \in StoreFaults :
              \/ CreateSecret(p, fault)
              \/ GetSecret(p, fault)
              \/ UpdateSecret(p, fault)
              \/ CreateManagedResource(p, fault)
              \/ GetManagedResource(p, fault)
              \/ UpdateManagedResource(p, fault)
              \/ DeleteManagedResource(p, fault)
              \/ DeleteSecret(p, fault)
        \/ Return(p) /\ UNCHANGED host

Spec == Init /\ [][Next]_vars

\* A Secret and a ManagedResource of the fixed name that this deployer's current
\* code did not write: other data under a checksum that is not its own, another
\* secret reference, objects kept.
StaleData == ("stale.yaml" :> Encode([ Kind |-> "ConfigMap", Name |-> "stale" ]))

StaleSecret(namespace) ==
    [ Kind            |-> "Secret",
      Name            |-> ManagedResourceName,
      Namespace       |-> namespace,
      ResourceVersion |-> 1,
      Annotations     |-> (ChecksumAnnotation :> ComputeSecretChecksum(<< >>)),
      Type            |-> "Opaque",
      Data            |-> StaleData ]

StaleManagedResource(namespace) ==
    [ Kind            |-> "ManagedResource",
      Name            |-> ManagedResourceName,
      Namespace       |-> namespace,
      ResourceVersion |-> 2,
      Spec            |-> [ SecretRefs   |-> << [ Name |-> "stale" ] >>,
                            InjectLabels |-> ("shoot.gardener.cloud/no-cleanup" :> "true"),
                            KeepObjects  |-> << TRUE >> ] ]

\* Any store: each descriptor of each target absent or stale.
InitAny ==
    /\ store \in { s \cup m :
                     s \in SUBSET { StaleSecret(ns) : ns \in Targets },
                     m \in SUBSET { StaleManagedResource(ns) : ns \in Targets } }
    /\ nextRV = 3
    /\ override = NoOverride
    /\ host = NoHost
    /\ object = NoObject
    /\ InitCommon

SpecAny == InitAny /\ [][Next]_vars

\* The inputs of the interleaved invocations: no override or one, a shoot of
\* purpose evaluation that is awake.
ConcProviderConfigs ==
    { << >>,
      << [ wellFormed |-> TRUE,
           Spec |-> [ Image |-> "", Replicas |-> 0, IngressClass |-> "nginx",
                      IngressProvider |-> IngressProviderKubernetesIngressNGINX ] ] >> }

ConcClusters ==
    { [ err |-> "", Shoot |-> << [ Hibernated |-> FALSE, Purpose |-> << ShootPurposeEvaluation >> ] >> ] }

\* Invocations on one namespace interleaved at their store calls.
NextConc ==
    \E p \in Procs :
        \/ \E ns \in Targets, pcfg \in ConcProviderConfigs, cl \in ConcClusters :
              Reconcile(p, ns, pcfg, cl)
        \/ \E ns \in Targets : Delete(p, ns, NoOverride)
        \/ \E fault \in StoreFaults :
              \/ CreateSecret(p, fault)
              \/ GetSecret(p, fault)
              \/ UpdateSecret(p, fault)
              \/ CreateManagedResource(p, fault)
              \/ GetManagedResource(p, fault)
              \/ UpdateManagedResource(p, fault)
              \/ DeleteManagedResource(p, fault)
              \/ DeleteSecret(p, fault)
        \/ Return(p) /\ UNCHANGED host

SpecConc == Init /\ [][NextConc]_vars

\* Invocations on two namespaces, interleaved at their store calls, on one
\* namespace or on both, against a store that does what it is asked.
NextAcross ==
    \E p \in Procs :
        \/ \E ns \in Namespaces, pcfg \in ConcProviderConfigs, cl \in ConcClusters :
              Reconcile(p, ns, pcfg, cl)
        \/ \E ns \in Namespaces : Delete(p, ns, NoOverride)
        \/ CreateSecret(p, NoFault)
        \/ GetSecret(p, NoFault)
        \/ UpdateSecret(p, NoFault)
        \/ CreateManagedResource(p, NoFault)
        \/ GetManagedResource(p, NoFault)
        \/ UpdateManagedResource(p, NoFault)
        \/ DeleteManagedResource(p, NoFault)
        \/ DeleteSecret(p, NoFault)
        \/ Return(p) /\ UNCHANGED host

SpecAcross == Init /\ [][NextAcross]_vars

\* The host runtime's work items: an Extension to reconcile or one to delete.
Hosts ==
    [ op : {"reconcile", "delete"}, providerConfig : ConcProviderConfigs, pending : {TRUE} ]

\* A work item on any store.
InitRetry ==
    /\ store \in { s \cup m :
                     s \in SUBSET { StaleSecret(ns) : ns \in Targets },
                     m \in SUBSET { StaleManagedResource(ns) : ns \in Targets } }
    /\ nextRV = 3
    /\ override = NoOverride
    /\ host \in Hosts
    /\ object = NoObject
    /\ InitCommon

\* The store's calls may fail in every invocation but the last the bound allows.
FaultsGoOn(fault) == fault = NoFault \/ Started < MaxCalls

\* The host runtime takes the invocation's result: an error puts the work item
\* back, nil drops it.
Requeue(p) ==
    /\ Return(p)
    /\ host' = [host EXCEPT !.pending = inv[p].result # << << >> >>]

\* The host runtime invokes the work item's operation while it is pending.
NextRetry ==
    \E p \in Workers :
        \/ \E ns \in Targets, cl \in ConcClusters :
              /\ host.pending /\ host.op = "reconcile"
              /\ Reconcile(p, ns, host.providerConfig, cl)
        \/ \E ns \in Targets :
              /\ host.pending /\ host.op = "delete"
              /\ Delete(p, ns, host.providerConfig)
        \/ \E fault \in StoreFaults :
              \/ FaultsGoOn(fault) /\ CreateSecret(p, fault)
              \/ FaultsGoOn(fault) /\ GetSecret(p, fault)
              \/ FaultsGoOn(fault) /\ UpdateSecret(p, fault)
              \/ FaultsGoOn(fault) /\ CreateManagedResource(p, fault)
              \/ FaultsGoOn(fault) /\ GetManagedResource(p, fault)
              \/ FaultsGoOn(fault) /\ UpdateManagedResource(p, fault)
              \/ FaultsGoOn(fault) /\ DeleteManagedResource(p, fault)
              \/ FaultsGoOn(fault) /\ DeleteSecret(p, fault)
        \/ Requeue(p)

\* The host runtime runs an invocation to its return and invokes a pending work item.
SpecRetry == InitRetry /\ [][NextRetry]_vars /\ WF_vars(NextRetry)

\* Two namespaces that hold the same: each descriptor absent or stale in both.
InitAlias ==
    /\ store \in { { StaleSecret(ns) : ns \in IF s THEN Namespaces ELSE {} }
                   \cup { StaleManagedResource(ns) : ns \in IF m THEN Namespaces ELSE {} } :
                   s \in BOOLEAN, m \in BOOLEAN }
    /\ nextRV = 3
    /\ override = NoOverride
    /\ host = NoHost
    /\ object = NoObject
    /\ InitCommon

\* The store fails the second worker's next call exactly when it failed the
\* first worker's call of the same position.
SameFault ==
    LET k == Len(inv[2].log) + 1
    IN  IF k <= Len(inv[1].log) /\ inv[1].log[k].err = "Internal" THEN "Internal" ELSE NoFault

\* The second worker issues a store call after the first has issued or skipped its own.
Behind == pc[1] = "done" \/ Len(inv[2].log) < Len(inv[1].log)

\* Worker 1 runs Reconcile on one namespace; worker 2 runs Restore or Migrate of
\* the same Extension and Cluster on the other, against the same store faults.
NextAlias ==
    \/ \E pcfg \in ProviderConfigs, cl \in Clusters :
          Started = 0 /\ Reconcile(1, "shoot--a", pcfg, cl)
    \/ /\ Started = 1 /\ pc[1] # "idle"
       /\ Restore(2, "shoot--b", inv[1].providerConfig, inv[1].cluster[1])
    \/ /\ Started = 1 /\ pc[1] # "idle"
       /\ Migrate(2, "shoot--b", inv[1].providerConfig, inv[1].cluster[1])
    \/ \E fault \in StoreFaults :
          \/ CreateSecret(1, fault)
          \/ GetSecret(1, fault)
          \/ UpdateSecret(1, fault)
          \/ CreateManagedResource(1, fault)
          \/ GetManagedResource(1, fault)
          \/ UpdateManagedResource(1, fault)
    \/ Behind /\ CreateSecret(2, SameFault)
    \/ Behind /\ GetSecret(2, SameFault)
    \/ Behind /\ UpdateSecret(2, SameFault)
    \/ Behind /\ CreateManagedResource(2, SameFault)
    \/ Behind /\ GetManagedResource(2, SameFault)
    \/ Behind /\ UpdateManagedResource(2, SameFault)
    \/ pc[2] = "done" /\ Return(1) /\ UNCHANGED host
    \/ pc[1] = "idle" /\ Return(2) /\ UNCHANGED host

SpecAlias == InitAlias /\ [][NextAlias]_vars

\* ------------------------------------------------------- the shoot validator

\* The extensions lists of a Shoot: entries of the type traefik or of another.
ExtensionLists ==
    UNION { [ 1 .. n -> [ Type : {ExtensionType, "shoot-dns-service"} ] ] : n \in 0 .. MaxExtensions }

\* The Shoots an admission request carries.
Shoots ==
    [ Kind : {"Shoot"}, Extensions : ExtensionLists, Purpose : Purposes, Hibernated : BOOLEAN ]

\* An object that is not a Shoot.
NotAShoot == [ Kind |-> "Seed", Extensions |-> << >>, Purpose |-> << >>, Hibernated |-> FALSE ]

\* A validateShoot that looks at the first entry of the extensions list only.
validateShootFirstEntry(shoot) ==
    LET hasTraefikExtension ==
            Len(shoot.Extensions) > 0 /\ shoot.Extensions[1].Type = ExtensionType
    IN  IF ~hasTraefikExtension THEN << >>
        ELSE IF shoot.Purpose = << >> \/ shoot.Purpose[1] # ShootPurposeEvaluation
        THEN << "traefik extension can only be enabled for shoots with purpose 'evaluation'" >>
        ELSE << >>

\* A validateShoot that lets a Shoot without purpose pass.
validateShootSetPurpose(shoot) ==
    LET hasTraefikExtension ==
            \E i \in 1 .. Len(shoot.Extensions) : shoot.Extensions[i].Type = ExtensionType
    IN  IF ~hasTraefikExtension THEN << >>
        ELSE IF shoot.Purpose # << >> /\ shoot.Purpose[1] # ShootPurposeEvaluation
        THEN << "traefik extension can only be enabled for shoots with purpose 'evaluation'" >>
        ELSE << >>

\* shootValidator.validateShoot: the error, nil when the Shoot passes.
validateShoot(shoot) ==
    LET hasTraefikExtension ==
            \E i \in 1 .. Len(shoot.Extensions) : shoot.Extensions[i].Type = ExtensionType
    IN  IF ~hasTraefikExtension THEN << >>
        ELSE IF shoot.Purpose = << >> \/ shoot.Purpose[1] # ShootPurposeEvaluation
        THEN << "traefik extension can only be enabled for shoots with purpose 'evaluation'" >>
        ELSE << >>

\* shootValidator.Validate
Validate ==
    /\ verdict = << >>
    /\ verdict' = << IF object.Kind # "Shoot"
                     THEN << "expected *gardencorev1beta1.Shoot" >>
                     ELSE validateShoot(object) >>
    /\ UNCHANGED << store, nextRV, imageVector, opTotal, pc, inv, lastDeployed,
                    override, resolved, built, host, object >>

\* The Cluster of a Shoot, as GetCluster returns it.
ClusterOf(shoot) ==
    [ err |-> "", Shoot |-> << [ Hibernated |-> shoot.Hibernated, Purpose |-> shoot.Purpose ] >> ]

\* An object to admit.
InitAdmit ==
    /\ store = {}
    /\ nextRV = 1
    /\ override = NoOverride
    /\ host = NoHost
    /\ object \in Shoots \cup {NotAShoot}
    /\ InitCommon

\* The validator is asked about the object; the actuator reconciles the Extension
\* of a Shoot that has one of the type traefik.
NextAdmit ==
    \/ Validate
    \/ \E pcfg \in ConcProviderConfigs :
          /\ object.Kind = "Shoot"
          /\ \E i \in 1 .. Len(object.Extensions) : object.Extensions[i].Type = ExtensionType
          /\ Reconcile(1, "shoot--a", pcfg, ClusterOf(object))
    \/ CreateSecret(1, NoFault)
    \/ GetSecret(1, NoFault)
    \/ UpdateSecret(1, NoFault)
    \/ CreateManagedResource(1, NoFault)
    \/ GetManagedResource(1, NoFault)
    \/ UpdateManagedResource(1, NoFault)
    \/ Return(1) /\ UNCHANGED host

SpecAdmit == InitAdmit /\ [][NextAdmit]_vars

\* Resolving and building, over every provider config.
InitBuild ==
    /\ store = {}
    /\ nextRV = 1
    /\ override \in AllProviderConfigs
    /\ host = NoHost
    /\ object = NoObject
    /\ InitCommon

NextBuild ==
    \/ Resolve
    \/ Generate
    \/ \E config \in Configs : GenerateFor(config)

SpecBuild == InitBuild /\ [][NextBuild]_vars

\* ------------------------------------------------------------------ claims

\* The invocations under way or returning, and among them those in Deploy or Delete.
Running == { p \in Procs : pc[p] # "idle" }

Returning == { p \in Procs : pc[p] = "done" }

InDeploy == { p \in Running : inv[p].deployer = "Deploy" /\ inv[p].resources # << >> }

InDelete == { p \in Running : inv[p].deployer = "Delete" }

ReturnedNil(p) == pc[p] = "done" /\ inv[p].result = << << >> >>

ReturnedError(p) == pc[p] = "done" /\ inv[p].result # << << >> >>

\* A store call that failed, AlreadyExists on Create aside.
DeployCallFailed(c) == c.err # "" /\ ~(c.verb = "Create" /\ c.err = "AlreadyExists")

\* A store call that failed with what the store's state does not imply.
NoFaultIn(log) == \A i \in 1 .. Len(log) : log[i].err # "Internal"

SecretOf(ns) == Find(store, "Secret", ns, ManagedResourceName)

ManagedResourceOf(ns) == Find(store, "ManagedResource", ns, ManagedResourceName)

\* C1: a Deploy that follows a successful Deploy of the same config on the same
\* namespace, and meets no store fault, returns nil and leaves Secret data, checksum
\* annotation and ManagedResource spec as the first call left them.
C1_DeployIdempotent ==
    \A p \in InDeploy \cap Returning :
        (inv[p].prev = inv[p].config /\ NoFaultIn(inv[p].log))
            => /\ inv[p].result = << << >> >>
               /\ View(store, inv[p].ns) = inv[p].before

\* A second Deploy of the config just deployed has returned, having found and
\* updated both descriptors.
C1_Witness ==
    \E p \in InDeploy \cap Returning :
        /\ inv[p].prev = inv[p].config
        /\ NoFaultIn(inv[p].log)
        /\ Len(inv[p].log) = 6
        /\ ReturnedNil(p)

\* C2: in a Deploy, the Secret is created first; a Get follows only a Create of the
\* same descriptor that reported AlreadyExists, an Update only a successful Get of
\* the same descriptor, carrying the resourceVersion that Get returned; the
\* ManagedResource is created only after the Secret was created or updated.
C2_CreateOrUpdateProtocol ==
    \A p \in InDeploy :
        LET log == inv[p].log
        IN  \A i \in 1 .. Len(log) :
              /\ log[i].verb \in {"Create", "Get", "Update"}
              /\ log[i].verb = "Create" /\ log[i].kind = "Secret" => i = 1
              /\ log[i].verb = "Create" /\ log[i].kind = "ManagedResource" =>
                    /\ i > 1
                    /\ log[i-1].kind = "Secret"
                    /\ log[i-1].verb \in {"Create", "Update"}
                    /\ log[i-1].err = ""
              /\ log[i].verb = "Get" =>
                    /\ i > 1
                    /\ log[i-1].verb = "Create"
                    /\ log[i-1].kind = log[i].kind
                    /\ log[i-1].err = "AlreadyExists"
              /\ log[i].verb = "Update" =>
                    /\ i > 1
                    /\ log[i-1].verb = "Get"
                    /\ log[i-1].kind = log[i].kind
                    /\ log[i-1].err = ""
                    /\ log[i].rv = log[i-1].rv
              /\ (log[i].verb = "Create" /\ log[i].err = "AlreadyExists" /\ i < Len(log)) =>
                    log[i+1].verb = "Get" /\ log[i+1].kind = log[i].kind
              /\ (log[i].verb = "Get" /\ log[i].err = "" /\ i < Len(log)) =>
                    log[i+1].verb = "Update" /\ log[i+1].kind = log[i].kind

\* A Deploy has updated the Secret it found and created the ManagedResource it
\* did not find.
C2_Witness ==
    \E p \in InDeploy \cap Returning :
        LET log == inv[p].log
        IN  /\ Len(log) = 4
            /\ log[1] = Call("Create", "Secret", << >>, "AlreadyExists")
            /\ log[2].verb = "Get" /\ log[2].err = ""
            /\ log[3].verb = "Update" /\ log[3].err = "" /\ log[3].rv = log[2].rv
            /\ log[4] = Call("Create", "ManagedResource", << >>, "")

\* C3: in a Deploy, a store call that fails (AlreadyExists on Create aside) is the
\* last store call of the invocation, which returns an error at once; after a
\* failure on the Secret the ManagedResource is not touched.
C3_DeployFailsFast ==
    \A p \in InDeploy :
        LET log == inv[p].log
        IN  \A i \in 1 .. Len(log) :
              DeployCallFailed(log[i]) =>
                  /\ i = Len(log)
                  /\ ReturnedError(p)
                  /\ log[i].kind = "Secret" =>
                        \A j \in 1 .. Len(log) : log[j].kind # "ManagedResource"

\* A Deploy has returned an error on an Update of the Secret that the store
\* refused for its stale resourceVersion.
C3_Witness ==
    \E p \in InDeploy \cap Returning :
        LET log == inv[p].log
        IN  /\ Len(log) = 3
            /\ log[3] = Call("Update", "Secret", log[2].rv, "Conflict")
            /\ ReturnedError(p)

\* C4: a stored bundle Secret carries the checksum of the data it holds.
C4_ChecksumCurrent ==
    \A o \in store :
        o.Kind = "Secret" => o.Annotations[ChecksumAnnotation] = ComputeSecretChecksum(o.Data)

\* A Deploy has updated the Secret to other data than it held.
C4_Witness ==
    \E p \in InDeploy :
        /\ \E i \in 1 .. Len(inv[p].log) :
              inv[p].log[i] = Call("Update", "Secret", inv[p].log[i].rv, "")
        /\ \E o \in SecretOf(inv[p].ns) :
              /\ o.ResourceVersion > 1
              /\ [o EXCEPT !.ResourceVersion = 0] \notin inv[p].before

\* C5: when Deploy returns nil, the Secret holds the bundle built from the
\* invocation's config under its checksum, and the ManagedResource references
\* that Secret by name and keeps no objects.
C5_NoPartialApplication ==
    \A p \in InDeploy :
        ReturnedNil(p) =>
            /\ \E o \in SecretOf(inv[p].ns) :
                  /\ o.Data = generateResources(inv[p].config[1], imageVector).resources[1]
                  /\ o.Annotations[ChecksumAnnotation] = ComputeSecretChecksum(o.Data)
                  /\ \E m \in ManagedResourceOf(inv[p].ns) :
                        /\ m.Spec.SecretRefs = << [ Name |-> o.Name ] >>
                        /\ m.Spec.KeepObjects = << FALSE >>
            /\ Cardinality(SecretOf(inv[p].ns)) = 1
            /\ Cardinality(ManagedResourceOf(inv[p].ns)) = 1

\* A Deploy has returned nil over a store that held a stale Secret and a stale
\* ManagedResource when it started.
C5_Witness ==
    \E p \in InDeploy :
        /\ ReturnedNil(p)
        /\ inv[p].before = View({ StaleSecret(inv[p].ns), StaleManagedResource(inv[p].ns) },
                                inv[p].ns)

\* C6: a Delete deletes the ManagedResource first, and the Secret only after that
\* delete succeeded or reported NotFound; once it has deleted the Secret, the
\* ManagedResource is gone.
C6_TeardownOrder ==
    \A p \in InDelete :
        LET log == inv[p].log
        IN  /\ Len(log) <= 2
            /\ Len(log) >= 1 => log[1].verb = "Delete" /\ log[1].kind = "ManagedResource"
            /\ Len(log) = 2 =>
                  /\ log[2].verb = "Delete" /\ log[2].kind = "Secret"
                  /\ log[1].err \in {"", "NotFound"}
                  /\ log[2].err = "" => ManagedResourceOf(inv[p].ns) = {}

\* A Delete has deleted the ManagedResource and then the Secret, both stored.
C6_Witness ==
    \E p \in InDelete :
        inv[p].log = << Call("Delete", "ManagedResource", << >>, ""),
                        Call("Delete", "Secret", << >>, "") >>

\* C7: a Delete returns nil exactly when none of its deletes failed with anything
\* but NotFound, and then both descriptors are absent; with no store fault it
\* returns nil whatever was stored: nothing, the Secret alone, or both.
C7_TeardownTolerance ==
    \A p \in InDelete \cap Returning :
        LET log == inv[p].log
        IN  /\ inv[p].result = << << >> >>
                  <=> \A i \in 1 .. Len(log) : log[i].err \in {"", "NotFound"}
            /\ inv[p].result = << << >> >>
                  => SecretOf(inv[p].ns) = {} /\ ManagedResourceOf(inv[p].ns) = {}
            /\ NoFaultIn(log) => inv[p].result = << << >> >>

\* A Delete has returned nil where only the Secret was left.
C7_Witness ==
    \E p \in InDelete \cap Returning :
        /\ inv[p].log = << Call("Delete", "ManagedResource", << >>, "NotFound"),
                           Call("Delete", "Secret", << >>, "") >>
        /\ inv[p].result = << << >> >>
        /\ store = {}

ReconcileOps == {"reconcile", "restore", "migrate"}

\* The Reconcile invocations that read a shoot whose purpose is nil or not evaluation.
PurposeGated ==
    { p \in Running :
        /\ inv[p].op \in ReconcileOps
        /\ inv[p].cluster[1].err = ""
        /\ inv[p].cluster[1].Shoot[1].Purpose # << "evaluation" >> }

\* C8 as claimed: for every shoot whose purpose is nil or not evaluation, Reconcile
\* returns ErrShootPurposeNotEvaluation, having issued no store call, decoded no
\* provider config and consulted no image vector.
C8_Original ==
    \A p \in PurposeGated :
        /\ inv[p].result = << << ErrShootPurposeNotEvaluation >> >>
        /\ inv[p].log = << >>
        /\ ~inv[p].decoded
        /\ inv[p].lookups = 0

\* C8: for every shoot whose purpose is nil or not evaluation, Reconcile returns
\* at once, having issued no store call, decoded no provider config and consulted no
\* image vector, and the store is as before; it returns
\* ErrShootPurposeNotEvaluation when the shoot is not hibernated, nil when it is.
C8_PurposeGate ==
    \A p \in PurposeGated :
        /\ pc[p] = "done"
        /\ inv[p].log = << >>
        /\ ~inv[p].decoded
        /\ inv[p].lookups = 0
        /\ inv[p].deployer = ""
        /\ View(store, inv[p].ns) = inv[p].before
        /\ inv[p].result =
             IF inv[p].cluster[1].Shoot[1].Hibernated
             THEN << << >> >>
             ELSE << << ErrShootPurposeNotEvaluation >> >>

\* A Reconcile with a provider config, for an awake shoot without purpose over
\* deployed descriptors, has returned ErrShootPurposeNotEvaluation.
C8_Witness ==
    \E p \in PurposeGated :
        /\ inv[p].cluster[1].Shoot[1].Purpose = << >>
        /\ ~inv[p].cluster[1].Shoot[1].Hibernated
        /\ inv[p].providerConfig # << >>
        /\ inv[p].result = << << ErrShootPurposeNotEvaluation >> >>
        /\ SecretOf(inv[p].ns) # {}

\* The Reconcile invocations that got to a provider config the decoder rejects.
Malformed ==
    { p \in Running :
        /\ inv[p].op \in ReconcileOps
        /\ inv[p].cluster[1].err = ""
        /\ ~inv[p].cluster[1].Shoot[1].Hibernated
        /\ inv[p].cluster[1].Shoot[1].Purpose = << "evaluation" >>
        /\ inv[p].providerConfig # << >>
        /\ ~inv[p].providerConfig[1].wellFormed }

\* C9: when the decoder rejects the provider config, Reconcile calls Deploy with
\* exactly DefaultConfig(), and returns an error only if the image lookup or a store
\* call fails.
C9_MalformedOverrideNotFatal ==
    \A p \in Malformed :
        /\ inv[p].decoded
        /\ inv[p].config = << [ Image |-> "", Replicas |-> 2, IngressClass |-> "traefik",
                               IngressProvider |-> "KubernetesIngress" ] >>
        /\ inv[p].deployer = "Deploy"
        /\ imageVector # {} => p \in InDeploy
        /\ ReturnedError(p) => imageVector = {} \/ ~NoFaultIn(inv[p].log)
        /\ (pc[p] = "done" /\ imageVector # {} /\ NoFaultIn(inv[p].log)) => ReturnedNil(p)

\* A Reconcile with a rejected provider config that sets every field has returned
\* nil and stored the bundle of the defaults.
C9_Witness ==
    \E p \in Malformed :
        /\ ReturnedNil(p)
        /\ inv[p].providerConfig[1].Spec.Replicas = 3
        /\ \E o \in SecretOf(inv[p].ns) :
              o.Data = generateResources(DefaultConfig, imageVector).resources[1]

\* C10: for a provider config the decoder accepts, each field of the resolved
\* config is the override's when that is non-empty (replicas: positive) and the
\* default's otherwise, field by field; the replica count is positive, 2 when the
\* override's is zero or negative.
C10_OverrideMerge ==
    (resolved # << >> /\ override # << >> /\ override[1].wellFormed) =>
        LET o == override[1].Spec
            c == resolved[1].traefikConfig
        IN  /\ c.Image = IF o.Image # "" THEN o.Image ELSE ""
            /\ c.IngressClass = IF o.IngressClass # "" THEN o.IngressClass ELSE "traefik"
            /\ c.IngressProvider = IF o.IngressProvider # "" THEN o.IngressProvider
                                                             ELSE "KubernetesIngress"
            /\ c.Replicas = IF o.Replicas > 0 THEN o.Replicas ELSE 2
            /\ c.Replicas > 0

\* An accepted override with negative replicas, no image and the class nginx has
\* been resolved to 2 replicas, no image and nginx.
C10_Witness ==
    /\ resolved # << >>
    /\ override # << >>
    /\ override[1].wellFormed
    /\ override[1].Spec.Replicas < 0
    /\ override[1].Spec.Image = ""
    /\ override[1].Spec.IngressClass = "nginx"
    /\ resolved[1].traefikConfig.Replicas = 2
    /\ resolved[1].traefikConfig.IngressClass = "nginx"
    /\ resolved[1].traefikConfig.Image = ""

\* A build that returned a bundle, and the object behind one of its documents.
Built == built # << >> /\ built[1].err = << >>

Document(key) == built[1].resources[1][key][2]

Occurrences(seq, x) == Cardinality({ i \in 1 .. Len(seq) : seq[i] = x })

\* C11: for every provider value the workload's arguments enable exactly one watch
\* mode, each of its two flags once: the NGINX one exactly when the provider is
\* KubernetesIngressNGINX, the standard one for every other value, the empty and
\* unrecognized ones too, whose arguments are those of KubernetesIngress.
C11_VariantExclusivity ==
    Built =>
        LET args  == Document("deployment.yaml").Args
            c     == built[1].config
            isNGINX == c.IngressProvider = "KubernetesIngressNGINX"
            std   == "--providers.kubernetesingress=true"
            nginx == "--providers.kubernetesingressnginx=true"
            stdClass(x)   == "--providers.kubernetesingress.ingressclass=" \o x
            nginxClass(x) == "--providers.kubernetesingressnginx.ingressclass=" \o x
        IN  /\ Occurrences(args, std) + Occurrences(args, nginx) = 1
            /\ Occurrences(args, nginx) = 1 <=> isNGINX
            /\ \A x \in IngressClassValues :
                  /\ Occurrences(args, stdClass(x)) =
                        IF ~isNGINX /\ x = c.IngressClass THEN 1 ELSE 0
                  /\ Occurrences(args, nginxClass(x)) =
                        IF isNGINX /\ x = c.IngressClass THEN 1 ELSE 0
            /\ ~isNGINX => args = BaselineArgs \o << std, stdClass(c.IngressClass) >>

\* A deployer with an unrecognized provider has built the standard arguments.
C11_Witness ==
    /\ Built
    /\ built[1].config.IngressProvider = "Unrecognized"
    /\ Occurrences(Document("deployment.yaml").Args, "--providers.kubernetesingress=true") = 1

\* Whether a rule of the ClusterRole grants get, list and watch on a core resource.
Grants(rules, group, resource) ==
    \E i \in 1 .. Len(rules) :
        /\ Occurrences(rules[i].APIGroups, group) > 0
        /\ Occurrences(rules[i].Resources, resource) > 0
        /\ \A v \in {"get", "list", "watch"} : Occurrences(rules[i].Verbs, v) > 0

\* C12: the ClusterRole grants get/list/watch on namespaces exactly when the
\* provider is KubernetesIngressNGINX, that is exactly when the workload's
\* arguments carry the NGINX flag; it grants get/list/watch on services, endpoints,
\* secrets, ingresses and ingressclasses for every provider.
C12_NamespaceRuleIffNGINX ==
    Built =>
        LET rules == Document("clusterrole.yaml").Rules
            args  == Document("deployment.yaml").Args
        IN  /\ Grants(rules, "", "namespaces")
                  <=> built[1].config.IngressProvider = "KubernetesIngressNGINX"
            /\ Grants(rules, "", "namespaces")
                  <=> Occurrences(args, "--providers.kubernetesingressnginx=true") > 0
            /\ \A r \in {"services", "endpoints", "secrets"} : Grants(rules, "", r)
            /\ \A r \in {"ingresses", "ingressclasses"} : Grants(rules, "networking.k8s.io", r)

\* A build from an override that asks for KubernetesIngressNGINX grants the
\* namespaces rule and carries the NGINX flag.
C12_Witness ==
    /\ Built
    /\ override # << >>
    /\ built[1].config.IngressProvider = "KubernetesIngressNGINX"
    /\ Grants(Document("clusterrole.yaml").Rules, "", "namespaces")
    /\ Occurrences(Document("deployment.yaml").Args, "--providers.kubernetesingressnginx=true") = 1

Unresolvable ==
    { p \in Running :
        /\ inv[p].deployer = "Deploy"
        /\ inv[p].config[1].Image = ""
        /\ imageVector = {} }

\* C14: when the config has no image and the image vector no entry, the build
\* returns an error and no bundle, and Deploy returns that error, wrapped, having
\* issued no store call; the store is as before.
C14_ImageResolutionFatal ==
    \A p \in Unresolvable :
        /\ inv[p].resources = << >>
        /\ inv[p].lookups = 1
        /\ inv[p].log = << >>
        /\ pc[p] = "done"
        /\ inv[p].result = << << "failed to deploy traefik",
                                 "failed to generate traefik resources",
                                 "failed to create deployment",
                                 "failed to find traefik image in image vector",
                                 "could not find image" >> >>
        /\ View(store, inv[p].ns) = inv[p].before

\* Over deployed descriptors, a Reconcile whose override sets the provider, the
\* class and no image has failed on the image lookup.
C14_Witness ==
    \E p \in Unresolvable :
        /\ inv[p].op = "reconcile"
        /\ inv[p].config[1].IngressProvider = "KubernetesIngressNGINX"
        /\ ReturnedError(p)
        /\ inv[p].before # {}

\* The work item can succeed: a delete, or a reconcile whose image resolves.
Resolvable ==
    \/ host.op = "delete"
    \/ generateResources(ParseTraefikConfig(host.providerConfig).traefikConfig,
                         imageVector).err = << >>

\* The state an uninterrupted run of the work item's operation leaves on an empty
\* store: both descriptors as Deploy builds them, or none.
Converged ==
    \A ns \in Targets :
        View(store, ns) =
            IF host.op = "delete" THEN {}
            ELSE { DesiredSecret(ns, generateResources(
                                       ParseTraefikConfig(host.providerConfig).traefikConfig,
                                       imageVector).resources[1]),
                   DesiredManagedResource(ns) }

\* An invocation that returns having met no store fault returns nil, the target as
\* an uninterrupted run leaves it.
RetrySafe ==
    \A p \in Returning :
        (Resolvable /\ NoFaultIn(inv[p].log)) => ReturnedNil(p) /\ Converged

\* C15: whatever earlier invocations that failed at any step have left, the
\* operation run again without store faults returns nil and leaves what an
\* uninterrupted run from scratch leaves; and when the host runtime invokes the
\* operation again after each error and the store's faults end, the work item is
\* eventually done and the target stays in that state.
C15_RetryConverges ==
    /\ []RetrySafe
    /\ Resolvable => <>[](~host.pending /\ Converged)

\* A Reconcile has returned nil over a namespace where an earlier Reconcile that
\* failed had left the Secret it wrote and no ManagedResource.
C15_Witness ==
    \E p \in InDeploy :
        /\ ReturnedNil(p)
        /\ host.op = "reconcile"
        /\ opTotal[<< inv[p].ns, "reconcile" >>] >= 1
        /\ inv[p].before = { DesiredSecret(inv[p].ns, inv[p].resources[1]) }
        /\ Converged

\* The Reconcile, Restore and Migrate invocations that return an error.
Failed == { p \in Running : inv[p].op \in ReconcileOps /\ ReturnedError(p) }

OfKind(objects, kind) == { o \in objects : o.Kind = kind }

\* C16 as claimed: whenever Reconcile returns an error it has issued no Delete, and
\* both descriptors are stored as they were before the call.
C16_Original ==
    \A p \in Failed :
        /\ \A i \in 1 .. Len(inv[p].log) : inv[p].log[i].verb # "Delete"
        /\ View(store, inv[p].ns) = inv[p].before

\* C16: whenever Reconcile returns an error it has issued no Delete and undone
\* nothing: the ManagedResource is stored as before the call, and the Secret is
\* stored as before the call unless a Create or Update of it succeeded before the
\* failure, and then it is the Secret that call wrote.
C16_NoCleanupOnError ==
    \A p \in Failed :
        LET log   == inv[p].log
            now   == View(store, inv[p].ns)
            wrote == \E i \in 1 .. Len(log) :
                        /\ log[i].kind = "Secret"
                        /\ log[i].verb \in {"Create", "Update"}
                        /\ log[i].err = ""
        IN  /\ \A i \in 1 .. Len(log) : log[i].verb # "Delete"
            /\ OfKind(now, "ManagedResource") = OfKind(inv[p].before, "ManagedResource")
            /\ OfKind(now, "Secret") =
                  IF wrote THEN { DesiredSecret(inv[p].ns, inv[p].resources[1]) }
                           ELSE OfKind(inv[p].before, "Secret")

\* A Reconcile on an empty namespace has created the Secret and returned the error
\* of the ManagedResource's Create: the Secret stays.
C16_Witness ==
    \E p \in Failed :
        /\ inv[p].before = {}
        /\ Len(inv[p].log) = 2
        /\ inv[p].log[2] = Call("Create", "ManagedResource", << >>, "Internal")
        /\ View(store, inv[p].ns) = { DesiredSecret(inv[p].ns, inv[p].resources[1]) }

\* The store calls of a log with a verb and a kind.
Calls(log, verb, kind) ==
    Cardinality({ i \in 1 .. Len(log) : log[i].verb = verb /\ log[i].kind = kind })

\* C17: an invocation issues each store call at most once per descriptor: a
\* Deploy at most one Create, one Get and one Update of each, six calls in all, a
\* Delete at most one Delete of each; and no call follows one that failed.
C17_NoInternalRetry ==
    \A p \in Running :
        LET log == inv[p].log
        IN  /\ \A verb \in {"Create", "Get", "Update", "Delete"},
                  kind \in {"Secret", "ManagedResource"} : Calls(log, verb, kind) <= 1
            /\ inv[p].deployer = "Deploy" =>
                  /\ Len(log) <= 6
                  /\ \A i \in 1 .. Len(log) : log[i].verb \in {"Create", "Get", "Update"}
            /\ inv[p].deployer = "Delete" =>
                  /\ Len(log) <= 2
                  /\ \A i \in 1 .. Len(log) : log[i].verb = "Delete"
            /\ inv[p].deployer = "" => log = << >>
            /\ \A i \in 1 .. Len(log) :
                  (/\ log[i].err # ""
                   /\ ~(log[i].verb = "Create" /\ log[i].err = "AlreadyExists")
                   /\ ~(log[i].verb = "Delete" /\ log[i].err = "NotFound"))
                  => i = Len(log) /\ pc[p] = "done"

\* A Deploy has returned the error of its sixth store call, the Update of the
\* ManagedResource.
C17_Witness ==
    \E p \in InDeploy \cap Returning :
        /\ Len(inv[p].log) = 6
        /\ inv[p].log[6].verb = "Update"
        /\ inv[p].log[6].kind = "ManagedResource"
        /\ inv[p].log[6].err = "Internal"
        /\ ReturnedError(p)

\* The objects of a namespace as they would read in another.
Renamed(objects, namespace) == { [o EXCEPT !.Namespace = namespace] : o \in objects }

\* A call log without the resourceVersions, which the store hands out.
Unversioned(log) == [ i \in 1 .. Len(log) |-> [log[i] EXCEPT !.rv = << >>] ]

\* C18: Restore and Migrate of an Extension return what Reconcile of it returns
\* and leave in the store what Reconcile leaves, from the same store and against
\* the same store faults: the same skip on hibernation, the same purpose gate, the
\* same config, the same store calls with the same outcomes.
C18_RestoreMigrateAlias ==
    (/\ pc[1] = "done" /\ pc[2] = "done"
     /\ inv[1].op = "reconcile" /\ inv[2].op \in {"restore", "migrate"}) =>
        /\ inv[2].result = inv[1].result
        /\ Renamed(View(store, inv[2].ns), inv[1].ns) = View(store, inv[1].ns)
        /\ Unversioned(inv[2].log) = Unversioned(inv[1].log)
        /\ inv[2].decoded = inv[1].decoded
        /\ inv[2].lookups = inv[1].lookups
        /\ inv[2].config = inv[1].config

\* A Restore and a Reconcile of a hibernated shoot have both returned nil, the
\* stale descriptors untouched.
C18_Witness ==
    /\ pc[1] = "done" /\ pc[2] = "done"
    /\ inv[1].op = "reconcile" /\ inv[2].op = "restore"
    /\ inv[1].cluster[1].err = ""
    /\ inv[1].cluster[1].Shoot[1].Hibernated
    /\ inv[2].result = << << >> >>
    /\ View(store, inv[2].ns) =
          View({ StaleSecret(inv[2].ns), StaleManagedResource(inv[2].ns) }, inv[2].ns)

\* C19: the IngressClass of a bundle is named after the config's ingress class
\* and marked as the default class, and the workload's arguments carry the
\* ingressclass flag of the enabled watch mode with that same name; an override
\* asking for KubernetesIngressNGINX and the class nginx yields the NGINX flag
\* with nginx and the namespaces rule.
C19_IngressClassConsistent ==
    Built =>
        LET c    == built[1].config
            ic   == Document("ingressclass.yaml")
            args == Document("deployment.yaml").Args
            flag == IF c.IngressProvider = "KubernetesIngressNGINX"
                    THEN "--providers.kubernetesingressnginx.ingressclass="
                    ELSE "--providers.kubernetesingress.ingressclass="
        IN  /\ ic.Name = c.IngressClass
            /\ ic.Annotations.isDefaultClass = "true"
            /\ Occurrences(args, flag \o ic.Name) = 1
            /\ (/\ override # << >>
                /\ override[1].wellFormed
                /\ override[1].Spec.IngressProvider = "KubernetesIngressNGINX"
                /\ override[1].Spec.IngressClass = "nginx") =>
                  /\ Occurrences(args, "--providers.kubernetesingressnginx.ingressclass=nginx") = 1
                  /\ Occurrences(args, "--providers.kubernetesingressnginx=true") = 1
                  /\ Grants(Document("clusterrole.yaml").Rules, "", "namespaces")

\* The bundle of an accepted override asking for KubernetesIngressNGINX and the
\* class nginx has been built, its IngressClass named nginx.
C19_Witness ==
    /\ Built
    /\ override # << >>
    /\ override[1].wellFormed
    /\ override[1].Spec.IngressProvider = "KubernetesIngressNGINX"
    /\ override[1].Spec.IngressClass = "nginx"
    /\ Document("ingressclass.yaml").Name = "nginx"

\* C20 as claimed: the names of the ClusterRole and of the IngressClass are fixed,
\* whatever the config; the default config's bundle names them
\* traefik-ingress-controller and traefik, so these are the names.
C20_Original ==
    Built =>
        /\ Document("clusterrole.yaml").Name = "traefik-ingress-controller"
        /\ Document("ingressclass.yaml").Name = "traefik"

\* C20: the ClusterRole and the IngressClass carry no namespace; the ClusterRole's
\* name is traefik-ingress-controller whatever the config; the IngressClass's
\* name is the config's ingress class, so it is traefik only for that class.
C20_ClusterScopedNames ==
    Built =>
        LET cr == Document("clusterrole.yaml")
            ic == Document("ingressclass.yaml")
        IN  /\ "Namespace" \notin DOMAIN cr
            /\ "Namespace" \notin DOMAIN ic
            /\ cr.Name = "traefik-ingress-controller"
            /\ ic.Name = built[1].config.IngressClass
            /\ ic.Name = "traefik" <=> built[1].config.IngressClass = "traefik"

\* A bundle whose IngressClass is not named traefik has been built, its
\* ClusterRole named traefik-ingress-controller.
C20_Witness ==
    /\ Built
    /\ built[1].config.IngressClass = "nginx"
    /\ Document("ingressclass.yaml").Name = "nginx"
    /\ Document("clusterrole.yaml").Name = "traefik-ingress-controller"

\* The objects the store holds in a namespace, as stored.
StoredIn(objects, ns) == { o \in objects : o.Namespace = ns }

\* Every stored object is a Secret or a ManagedResource of the one fixed name, at
\* most one of each per namespace.
OneBundlePerNamespace ==
    /\ \A o \in store :
          /\ o.Kind \in {"Secret", "ManagedResource"}
          /\ o.Name = ManagedResourceName
          /\ o.Namespace \in Namespaces
    /\ \A ns \in Namespaces :
          /\ Cardinality(SecretOf(ns)) <= 1
          /\ Cardinality(ManagedResourceOf(ns)) <= 1

\* What an invocation has read is no object of another namespace (the store's
\* resourceVersions are unique).
ReadsOwnNamespace ==
    \A p \in Running : \A o \in store :
        o.Namespace # inv[p].ns => inv[p].existing # << o.ResourceVersion >>

\* A step changes what a namespace holds only as a store call of an invocation
\* on that namespace.
WritesOwnNamespace ==
    \A ns \in Namespaces :
        StoredIn(store', ns) # StoredIn(store, ns) =>
            \E p \in Procs :
                /\ inv[p].ns = ns
                /\ inv'[p].ns = ns
                /\ Len(inv'[p].log) = Len(inv[p].log) + 1

\* C21: whatever the config, Deploy and Delete on a namespace read and write only
\* the Secret and the ManagedResource of the one fixed name in that namespace:
\* no interleaving of invocations changes what another namespace holds, and each
\* namespace holds at most one Secret and one ManagedResource.
C21_TargetIsolation ==
    /\ [](OneBundlePerNamespace /\ ReadsOwnNamespace)
    /\ [][WritesOwnNamespace]_vars

\* Two invocations are under way on one namespace, one of them past its first
\* store call, while the other namespace holds both descriptors.
C21_Witness ==
    /\ \A p \in Procs : pc[p] \notin {"idle", "done"} /\ inv[p].ns = "shoot--a"
    /\ \E p \in Procs : Len(inv[p].log) >= 1
    /\ SecretOf("shoot--b") # {}
    /\ ManagedResourceOf("shoot--b") # {}
    /\ SecretOf("shoot--a") # {}

\* C22: the validator rejects a Shoot exactly when its extensions list has an
\* entry of the type traefik and its purpose is nil or not evaluation; it accepts
\* every Shoot without such an entry; it rejects what is not a Shoot.
C22_AdmissionGate ==
    verdict # << >> =>
        LET rejected  == verdict[1] # << >>
            hasEntry  == \E i \in 1 .. Len(object.Extensions) :
                            object.Extensions[i].Type = "traefik"
        IN  /\ object.Kind # "Shoot" => rejected
            /\ object.Kind = "Shoot" =>
                  (rejected <=> hasEntry /\ object.Purpose # << "evaluation" >>)

\* A Shoot of purpose production whose second extension is traefik has been
\* rejected.
C22_Witness ==
    /\ verdict # << >>
    /\ verdict[1] # << >>
    /\ object.Kind = "Shoot"
    /\ Len(object.Extensions) = 2
    /\ object.Extensions[1].Type # "traefik"
    /\ object.Extensions[2].Type = "traefik"
    /\ object.Purpose = << "production" >>

\* Two invocations that reached Deploy with equal configs hold the same bundle,
\* of the seven keys, and the same checksum of it.
SameConfigSameBundle ==
    \A p, q \in InDeploy :
        inv[p].config = inv[q].config =>
            /\ inv[p].resources = inv[q].resources
            /\ DOMAIN inv[p].resources[1] = ResourceKeys
            /\ ComputeSecretChecksum(inv[p].resources[1])
                 = ComputeSecretChecksum(inv[q].resources[1])

\* Stored Secrets with the same data carry the same checksum, whatever their
\* namespaces.
SameDataSameChecksum ==
    \A s1, s2 \in OfKind(store, "Secret") :
        s1.Data = s2.Data => s1.Annotations = s2.Annotations

\* The step that writes the Secret stores the bundle of the invocation's config
\* and of the image vector, and the checksum of that bundle.
WritesTheBuild ==
    \A p \in Procs :
        (pc[p] \in {"createSecret", "updateSecret"} /\ pc'[p] = "createMR") =>
            LET bundle == generateResources(inv[p].config[1], imageVector).resources[1]
            IN  \A s \in Find(store', "Secret", inv[p].ns, ManagedResourceName) :
                    /\ s.Data = bundle
                    /\ s.Annotations[ChecksumAnnotation] = ComputeSecretChecksum(bundle)

WithoutProviderConfig ==
    { p \in InDeploy : inv[p].op \in ReconcileOps /\ inv[p].providerConfig = << >> }

\* C24: DefaultConfig() is {"", 2, "traefik", KubernetesIngress}; a Reconcile of
\* an Extension without provider config decodes nothing, resolves exactly these
\* values, takes the image from the image vector, and on success has stored the
\* bundle built from them.
C24_Defaults ==
    LET defaults == [ Image |-> "", Replicas |-> 2, IngressClass |-> "traefik",
                      IngressProvider |-> "KubernetesIngress" ]
    IN  /\ DefaultConfig = defaults
        /\ \A p \in WithoutProviderConfig :
              LET workload == inv[p].resources[1]["deployment.yaml"][2]
                  class    == inv[p].resources[1]["ingressclass.yaml"][2]
              IN  /\ ~inv[p].decoded
                  /\ inv[p].config = << defaults >>
                  /\ inv[p].lookups = 1
                  /\ inv[p].resources = generateResources(defaults, imageVector).resources
                  /\ workload.Replicas = 2
                  /\ workload.Image = FindImage(imageVector, ImageName).image
                  /\ workload.Image # ""
                  /\ SubSeq(workload.Args, Len(workload.Args) - 1, Len(workload.Args))
                       = << "--providers.kubernetesingress=true",
                            "--providers.kubernetesingress.ingressclass=traefik" >>
                  /\ class.Name = "traefik"
                  /\ ReturnedNil(p) =>
                        /\ SecretOf(inv[p].ns) # {}
                        /\ \A o \in SecretOf(inv[p].ns) : o.Data = inv[p].resources[1]

\* A Reconcile without provider config has returned nil and the Secret holds a
\* workload of two replicas.
C24_Witness ==
    \E p \in WithoutProviderConfig :
        /\ ReturnedNil(p)
        /\ \E o \in SecretOf(inv[p].ns) :
              /\ o.Data["deployment.yaml"][2].Replicas = 2
              /\ o.Data["ingressclass.yaml"][2].Name = "traefik"

\* C25: for every provider value and ingress class the workload's arguments are
\* the ten baseline arguments in their fixed order followed by two provider
\* arguments, and another provider value changes those two and nothing else of
\* the workload.
C25_BaselineArguments ==
    Built =>
        LET args == Document("deployment.yaml").Args
            c    == built[1].config
        IN  /\ Len(args) = 12
            /\ SubSeq(args, 1, 10) =
                  << "--api.insecure=false",
                     "--api.dashboard=false",
                     "--ping=true",
                     "--ping.entrypoint=web",
                     "--metrics.prometheus=true",
                     "--metrics.prometheus.entrypoint=metrics",
                     "--entrypoints.web.address=:8000",
                     "--entrypoints.websecure.address=:8443",
                     "--entrypoints.metrics.address=:9100",
                     "--log.level=INFO" >>
            /\ SubSeq(args, 11, 12) \in
                  { << "--providers.kubernetesingress=true",
                       "--providers.kubernetesingress.ingressclass=" \o c.IngressClass >>,
                    << "--providers.kubernetesingressnginx=true",
                       "--providers.kubernetesingressnginx.ingressclass=" \o c.IngressClass >> }
            /\ \A provider \in IngressProviderValues :
                  LET other == deployment([c EXCEPT !.IngressProvider = provider],
                                          built[1].imageVector).obj[1]
                  IN  /\ SubSeq(other.Args, 1, 10) = SubSeq(args, 1, 10)
                      /\ [other EXCEPT !.Args = << >>]
                           = [Document("deployment.yaml") EXCEPT !.Args = << >>]

\* A deployer of the NGINX provider and the class nginx has built its workload.
C25_Witness ==
    /\ Built
    /\ built[1].config.IngressProvider = "KubernetesIngressNGINX"
    /\ built[1].config.IngressClass = "nginx"
    /\ Document("deployment.yaml").Args[1] = "--api.insecure=false"
    /\ Document("deployment.yaml").Args[12] = "--providers.kubernetesingressnginx.ingressclass=nginx"

\* The Deploys that have returned an error after a store call.
FailedAtStore == { p \in InDeploy : ReturnedError(p) /\ inv[p].log # << >> }

\* The last store call of an invocation.
LastCall(p) == inv[p].log[Len(inv[p].log)]

\* An Update that met another resourceVersion than the one read, or no object.
StaleUpdate(c) == c.verb = "Update" /\ c.err \in {"Conflict", "NotFound"}

\* A Get that found nothing after Create reported AlreadyExists.
GoneAfterAlreadyExists(log) ==
    /\ Len(log) >= 2
    /\ log[Len(log)].verb = "Get"
    /\ log[Len(log)].err = "NotFound"
    /\ log[Len(log) - 1].verb = "Create"
    /\ log[Len(log) - 1].err = "AlreadyExists"
    /\ log[Len(log) - 1].kind = log[Len(log)].kind

\* C26: against a store that fails no call spuriously, a Deploy fails only if
\* another invocation on its namespace overlapped it, and then through an Update
\* that carried a stale resourceVersion or a Get that found the object gone after
\* Create reported AlreadyExists; a Deploy that ran alone on its namespace returns
\* nil.
C26_SerializedOrRacy ==
    /\ \A p \in FailedAtStore :
          /\ inv[p].overlapped
          /\ StaleUpdate(LastCall(p)) \/ GoneAfterAlreadyExists(inv[p].log)
    /\ \A p \in InDeploy \cap Returning : ~inv[p].overlapped => ReturnedNil(p)

\* Two Deploys interleaved on one namespace: one has failed on the Update of the
\* Secret with Conflict, the other has written the Secret meanwhile.
C26_Witness ==
    \E p \in FailedAtStore, q \in InDeploy :
        /\ p # q
        /\ inv[p].ns = inv[q].ns
        /\ LastCall(p) = Call("Update", "Secret", inv[p].existing, "Conflict")
        /\ Calls(inv[q].log, "Update", "Secret") = 1

\* C27: from an empty store, with invocations one at a time that may fail at any
\* store call, a namespace holds the ManagedResource only while it holds the
\* Secret the ManagedResource refers to.
C27_SecretOutlivesManagedResource ==
    \A ns \in Targets :
        \A mr \in ManagedResourceOf(ns) :
            \E secret \in SecretOf(ns) :
                \A i \in 1 .. Len(mr.Spec.SecretRefs) : mr.Spec.SecretRefs[i].Name = secret.Name

\* A Delete has removed the ManagedResource and failed on the Secret, which is
\* still there.
C27_Witness ==
    \E p \in InDelete :
        /\ ReturnedError(p)
        /\ Len(inv[p].log) = 2
        /\ inv[p].before # {}
        /\ ManagedResourceOf(inv[p].ns) = {}
        /\ SecretOf(inv[p].ns) # {}

\* The Reconcile invocations that read a hibernated shoot.
Hibernating ==
    { p \in Running :
        /\ inv[p].op \in ReconcileOps
        /\ inv[p].cluster[1].err = ""
        /\ inv[p].cluster[1].Shoot[1].Hibernated }

\* C28: for a hibernated shoot, whatever its purpose, Reconcile, Restore and
\* Migrate return nil at once: no store call, no decode, no image lookup, no
\* deployer, and the namespace holds what it held.
C28_HibernationSkip ==
    \A p \in Hibernating :
        /\ pc[p] = "done"
        /\ inv[p].result = << << >> >>
        /\ inv[p].log = << >>
        /\ ~inv[p].decoded
        /\ inv[p].lookups = 0
        /\ inv[p].deployer = ""
        /\ View(store, inv[p].ns) = inv[p].before

\* A Migrate for a hibernated shoot of purpose production, over deployed
\* descriptors, has returned nil and the descriptors are there.
C28_Witness ==
    \E p \in Hibernating :
        /\ inv[p].op = "migrate"
        /\ inv[p].cluster[1].Shoot[1].Purpose = << "production" >>
        /\ inv[p].result = << << >> >>
        /\ SecretOf(inv[p].ns) # {}
        /\ ManagedResourceOf(inv[p].ns) # {}

\* C29: Delete and ForceDelete read no cluster, decode no provider config and
\* consult no image vector; they go to the store at once, issue Deletes only, and
\* when no store call fails they return nil and leave the namespace without the
\* two descriptors, whatever the provider config and the image vector are.
C29_TeardownNotGated ==
    \A p \in InDelete :
        /\ inv[p].op \in {"delete", "force_delete"}
        /\ inv[p].cluster = << >>
        /\ ~inv[p].decoded
        /\ inv[p].lookups = 0
        /\ pc[p] = "done" => inv[p].log # << >>
        /\ \A i \in 1 .. Len(inv[p].log) : inv[p].log[i].verb = "Delete"
        /\ (pc[p] = "done" /\ NoFaultIn(inv[p].log)) =>
              /\ inv[p].result = << << >> >>
              /\ Len(inv[p].log) = 2
              /\ View(store, inv[p].ns) = {}

\* A Delete with a provider config the decoder rejects, under an image vector
\* without the image, has removed deployed descriptors and returned nil.
C29_Witness ==
    \E p \in InDelete :
        /\ inv[p].op = "delete"
        /\ ReturnedNil(p)
        /\ imageVector = {}
        /\ inv[p].providerConfig # << >>
        /\ ~inv[p].providerConfig[1].wellFormed
        /\ Cardinality(inv[p].before) = 2
        /\ store = {}

\* The object is a Shoot with the traefik extension, the validator has answered,
\* and the actuator has taken up the Reconcile of its Extension.
AdmittedAndReconciled ==
    /\ object.Kind = "Shoot"
    /\ \E i \in 1 .. Len(object.Extensions) : object.Extensions[i].Type = "traefik"
    /\ verdict # << >>
    /\ pc[1] # "idle"
    /\ inv[1].op = "reconcile"

\* C30: for every Shoot with the traefik extension that is not hibernated, the
\* validator accepts it exactly when Reconcile passes its purpose check and goes on
\* to the deployer, and rejects it exactly when Reconcile returns
\* ErrShootPurposeNotEvaluation; both happen exactly when the purpose is set and
\* is evaluation.
C30_SameGate ==
    (AdmittedAndReconciled /\ ~object.Hibernated) =>
        LET accepted == verdict[1] = << >>
            proceeds == inv[1].deployer = "Deploy"
            refused  == inv[1].result = << << ErrShootPurposeNotEvaluation >> >>
            isEvaluation == object.Purpose = << "evaluation" >>
        IN  /\ accepted <=> proceeds
            /\ ~accepted <=> refused
            /\ accepted <=> isEvaluation

\* A Shoot without purpose, awake, with the traefik extension: the validator has
\* rejected it and Reconcile has returned ErrShootPurposeNotEvaluation.
C30_Witness ==
    /\ AdmittedAndReconciled
    /\ ~object.Hibernated
    /\ object.Purpose = << >>
    /\ verdict[1] # << >>
    /\ inv[1].result = << << ErrShootPurposeNotEvaluation >> >>
    /\ inv[1].log = << >>

====
